---- MODULE Spec2Model ----
(***************************************************************************)
(* Blink pipeline of wellness_aws: EyeTracker.process_frame (skip policy,  *)
(* landmark cache, blink state machine), the observer call into            *)
(* EyeTrackerWidget.on_blink_detected, and NotificationManager (windowed   *)
(* blink rate with a cooldown-gated alert).                                *)
(*                                                                         *)
(* Units.  EAR values and EAR_THRESHOLD are in hundredths (0.21 is 21).    *)
(* Time is datetime.now() in whole seconds on a clock that never runs      *)
(* backwards; NOTIFICATION_CHECK_INTERVAL stays in milliseconds as in the  *)
(* configuration and is compared as the code compares it.                  *)
(***************************************************************************)
EXTENDS Integers, Sequences, FiniteSets, TLC

VARIABLES
    config,                 \* Configuration instance handed to every component
    frame_skip_counter,     \* EyeTracker._frame_skip_counter
    last_valid_landmarks,   \* EyeTracker._last_valid_landmarks (None or a pair)
    data,                   \* EyeTracker.data : EyeTrackingData
    frame_counter,          \* EyeTracker.frame_counter (consecutive below-threshold)
    current_blink_count,    \* EyeTrackerWidget.current_blink_count
    last_blink_count,       \* NotificationManager.last_blink_count
    last_check_time,        \* NotificationManager.last_check_time
    last_notification_time, \* NotificationManager.last_notification_time
    now,                    \* the value datetime.now() returns
    advances,               \* history: clock advances so far
    samples,                \* history: avg_ear samples fed to the blink detector
    counts,                 \* history: blink_count after each of those samples
    mon_event,              \* history: path the monitor took in the last step
    notify_calls,           \* history: notification.notify calls made in the last step
    deliveries,             \* history: the last two alerts the sink accepted
    resets,                 \* history: number of reset_tracking calls
    window_blinks,          \* history: blink events since the window was (re)started
    monitor_counts,         \* history: counts passed to check_blink_rate_and_notify
    last_failure,           \* history: time of the latest notify call that failed
    provider_calls,         \* history: face_mesh.process calls made in the last tick
    invoked_log,            \* history: provider_calls of every tick so far
    last_result,            \* history: what face_mesh.process did in the last tick
    prev_result,            \* history: last_result of the tick before
    last_detected,          \* history: the eye pair of the latest detection
    eye_updates,            \* history: eye-data publishes made in the last tick
    frame_exit,             \* history: how process_frame ended in the last tick
    result_log,             \* history: what every tick so far met
    published,              \* history: the events the last tick published, in order
    observers,              \* EyeTracker.observers (a WeakSet)
    reachable,              \* observer objects their owners still refer to
    delivery,               \* history: the last _notify_* call
    requested,              \* the values Configuration(...) was called with
    construction,           \* how Configuration(...) ended
    video_timer,            \* EyeTrackerWidget.video_timer: "active" or "stopped"
    face_mesh,              \* EyeTracker.face_mesh: "open" or "closed"
    window,                 \* the main window: "visible" or "hidden"
    tray_icon,              \* MainApplication.tray_icon: "absent", "shown" or "hidden"
    app,                    \* the event loop: "running" or "quit"
    teardown_log,           \* history: the calls the teardown paths made, in order
    session_posts           \* history: total_blinks of every session report sent

vars == <<config, frame_skip_counter, last_valid_landmarks, data, frame_counter,
          current_blink_count, last_blink_count, last_check_time,
          last_notification_time, now, advances, samples, counts, mon_event, notify_calls,
          deliveries, resets, window_blinks, monitor_counts, last_failure,
          provider_calls, invoked_log, last_result, prev_result, last_detected,
          eye_updates, frame_exit, result_log, published, observers, reachable, delivery, requested,
          construction, video_timer, face_mesh, window, tray_icon, app,
          teardown_log, session_posts>>

trackerVars == <<frame_skip_counter, last_valid_landmarks, data, frame_counter>>
monitorVars == <<last_blink_count, last_check_time, last_notification_time>>
historyVars == <<samples, counts>>
tickVars == <<invoked_log, last_result>>
frameVars == <<prev_result, last_detected, eye_updates, frame_exit, result_log,
               published>>
hubVars == <<observers, reachable, delivery>>
setupVars == <<requested, construction>>
hostVars == <<video_timer, face_mesh, window, tray_icon, app, teardown_log,
              session_posts>>
pipelineVars ==
    <<config, trackerVars, current_blink_count, monitorVars, now, advances,
      historyVars, mon_event, notify_calls, deliveries, resets, window_blinks,
      monitor_counts, last_failure, provider_calls, tickVars, frameVars>>

----------------------------------------------------------------------------
(* Bounds of the exploration *)

MaxSamples == 6     \* samples recorded per detector run
MaxCF == 2          \* largest CONSECUTIVE_FRAMES drawn
MaxBlinks == 6      \* blink_count cap in the pipeline specification
MaxRun == 2         \* frame_counter cap in the pipeline specification
MaxAdvances == 8    \* clock advances
MaxResets == 1      \* reset_tracking calls
MaxSkip == 3        \* largest MAX_FRAME_SKIP drawn
MaxTicks == 9       \* ticks of a scheduler run
MaxFrames == 7      \* ticks of a frame run
MaxPublishes == 2   \* _notify_* calls of a hub run
MaxSetupTicks == 4  \* ticks of a run after construction
MaxHostTicks == 4   \* ticks of a run that ends in a teardown
MaxPublishTicks == 6 \* ticks of a publish run

\* The instants at which the clock is read, in seconds: every 30 s for the
\* first two minutes, every 60 s after that.
Instant(i) == IF i <= 4 THEN 30 * i ELSE 120 + 60 * (i - 4)

\* Seconds that pass between the two clock reads of one monitor call; over a
\* run the clock is at most one such drift past an instant.
ClockDrifts == {0, 1}

EarSamples == {5, 10, 15, 25, 30}
PipelineSamples == {15, 30}
ThresholdChoices == {0, 21, 25}
MinBlinksChoices == {2, 15}

----------------------------------------------------------------------------
(* Optional values: Python None and a present value *)

None == <<>>
Some(x) == <<x>>
Get(o) == o[1]

----------------------------------------------------------------------------
(* Configuration defaults *)

EAR_THRESHOLD == 21
CONSECUTIVE_FRAMES == 2
MIN_DETECTION_CONFIDENCE == 50
MIN_TRACKING_CONFIDENCE == 50
MAX_FRAME_SKIP == 0
MIN_BLINKS_PER_MINUTE == 15
NOTIFICATION_CHECK_INTERVAL == 60000
NOTIFICATION_COOLDOWN_MINUTES == 5
LEFT_EYE_INDICES == <<33, 160, 158, 133, 153, 144>>
RIGHT_EYE_INDICES == <<362, 385, 387, 263, 373, 380>>

Configuration ==
    [EAR_THRESHOLD |-> EAR_THRESHOLD,
     CONSECUTIVE_FRAMES |-> CONSECUTIVE_FRAMES,
     MIN_DETECTION_CONFIDENCE |-> MIN_DETECTION_CONFIDENCE,
     MIN_TRACKING_CONFIDENCE |-> MIN_TRACKING_CONFIDENCE,
     MAX_FRAME_SKIP |-> MAX_FRAME_SKIP,
     MIN_BLINKS_PER_MINUTE |-> MIN_BLINKS_PER_MINUTE,
     NOTIFICATION_CHECK_INTERVAL |-> NOTIFICATION_CHECK_INTERVAL,
     LEFT_EYE_INDICES |-> LEFT_EYE_INDICES,
     RIGHT_EYE_INDICES |-> RIGHT_EYE_INDICES]

\* __post_init__ without its EAR_THRESHOLD test
Unchecked_EAR___post_init__(cfg) ==
    IF ~(0 <= cfg.MIN_DETECTION_CONFIDENCE /\ cfg.MIN_DETECTION_CONFIDENCE <= 100)
    THEN "ValueError"
    ELSE IF ~(0 <= cfg.MIN_TRACKING_CONFIDENCE /\ cfg.MIN_TRACKING_CONFIDENCE <= 100)
    THEN "ValueError"
    ELSE "ok"

\* Configuration.__post_init__: how the construction of cfg ends; the three
\* fractions are in hundredths
__post_init__(cfg) ==
    IF ~(0 <= cfg.EAR_THRESHOLD /\ cfg.EAR_THRESHOLD <= 100)
    THEN "ValueError"
    ELSE IF ~(0 <= cfg.MIN_DETECTION_CONFIDENCE /\ cfg.MIN_DETECTION_CONFIDENCE <= 100)
    THEN "ValueError"
    ELSE IF ~(0 <= cfg.MIN_TRACKING_CONFIDENCE /\ cfg.MIN_TRACKING_CONFIDENCE <= 100)
    THEN "ValueError"
    ELSE "ok"

\* timedelta(minutes=5), in seconds
notification_cooldown == NOTIFICATION_COOLDOWN_MINUTES * 60

EyeTrackingData ==
    [blink_count |-> 0, left_ear |-> 0, right_ear |-> 0, avg_ear |-> 0,
     left_eye_landmarks |-> None, right_eye_landmarks |-> None]

----------------------------------------------------------------------------
(* Landmark Provider results.  A landmark set is an eye tag with what     *)
(* _calculate_ear reads of it: the number of points, and the distances    *)
(* |p1-p5| + |p2-p4| (vertical) and |p0-p3| (horizontal), in pixels.      *)

\* IEEE values a numpy division by zero yields instead of raising
Infinity == 1000000
NaN == -1

\* a six-point landmark set whose EAR is ear hundredths
LandmarkSet(eye, ear) ==
    [eye |-> eye, points |-> 6, vertical |-> ear, horizontal |-> 50]

\* a six-point landmark set whose corners p0 and p3 coincide
DegenerateSet(eye, vertical) ==
    [eye |-> eye, points |-> 6, vertical |-> vertical, horizontal |-> 0]

Detection(ear) ==
    [kind |-> "detection",
     left_eye |-> LandmarkSet("L", ear), right_eye |-> LandmarkSet("R", ear)]

\* a detection whose left eye has zero width, the right eye at ear
DegenerateDetection(vertical, ear) ==
    [kind |-> "detection",
     left_eye |-> DegenerateSet("L", vertical), right_eye |-> LandmarkSet("R", ear)]

NoDetection == [kind |-> "none"]
ProviderFailure == [kind |-> "raise"]

ProviderResults(ears) == {NoDetection, ProviderFailure} \cup {Detection(e) : e \in ears}

\* the list comprehensions of lines 104-109: one point per configured index
ExtractEye(eye, indices) == [eye EXCEPT !.points = Len(indices)]

\* eye_landmarks[5] of line 83 does not exist
IndexError(eye_landmarks) == eye_landmarks.points < 6

\* (A + B) / (2.0 * C) on numpy floats, for a set of at least 6 points
_calculate_ear(eye_landmarks) ==
    IF eye_landmarks.horizontal = 0
    THEN IF eye_landmarks.vertical = 0 THEN NaN ELSE Infinity
    ELSE (eye_landmarks.vertical * 100) \div (2 * eye_landmarks.horizontal)

\* (left_ear + right_ear) / 2.0
AvgEar(left_ear, right_ear) ==
    IF NaN \in {left_ear, right_ear} THEN NaN
    ELSE IF Infinity \in {left_ear, right_ear} THEN Infinity
    ELSE (left_ear + right_ear) \div 2

\* a < b on floats: false when a is nan
FloatLess(a, b) == a # NaN /\ a < b

----------------------------------------------------------------------------
(* Observer Hub: EyeTracker.observers and the two _notify_* methods.  An  *)
(* observer's callback may raise, or may add or remove an observer.       *)

Observers == {"widget", "a"}

Idle == [raises |-> FALSE, op |-> "none", target |-> "widget"]

\* the callback that adds or removes an observer during one delivery, if
\* any: by is the observer it belongs to
NoEditor == [by |-> "nobody", op |-> "none", target |-> "widget"]
Editors(obs, live) ==
    {NoEditor} \cup {[by |-> o, op |-> op, target |-> t] :
                        o \in obs, op \in {"add", "remove"}, t \in obs \cup live}

\* what each observer's callback does during one delivery: those of raisers
\* raise, the editor's adds or removes an observer first
Callbacks(raisers, editor) ==
    [o \in Observers |->
        [raises |-> o \in raisers,
         op |-> IF o = editor.by THEN editor.op ELSE "none",
         target |-> IF o = editor.by THEN editor.target ELSE "widget"]]

NoDelivery ==
    [serial |-> 0, event |-> "none", snapshot |-> {}, order |-> <<>>,
     callbacks |-> [o \in Observers |-> Idle],
     received |-> [o \in Observers |-> 0], propagated |-> FALSE]

\* self.observers.add(observer)
add_observer(obs, observer) == obs \cup {observer}

\* self.observers.discard(observer)
remove_observer(obs, observer) == obs \ {observer}

\* the orders in which list(self.observers) may list the set
Orders(obs) ==
    {order \in [1..Cardinality(obs) -> obs] :
        \A i, j \in 1..Cardinality(obs) : order[i] = order[j] => i = j}

\* no try block around the callback: what it raises leaves the loop
Uncaught_observer_error_escapes(raises) == raises

\* the try/except of lines 65-68 and 73-76: what the callback raises is
\* logged and does not leave the loop
observer_error_escapes(raises) == FALSE

\* the loop run over self.observers itself: a set that changed size makes
\* the next step of the iteration raise
Live_iteration_fails(at_publish, current) ==
    Cardinality(at_publish) # Cardinality(current)

\* the loop runs over observers_copy (lines 63 and 71), which a callback
\* cannot change
iteration_fails(at_publish, current) == FALSE

\* the for loop of lines 64-68 and 72-76 over observers_copy; st holds the
\* observer set, the calls each observer received, and whether an
\* exception left the loop
RECURSIVE Deliver(_, _, _, _)
Deliver(observers_copy, beh, at_publish, st) ==
    IF observers_copy = <<>> \/ st.propagated THEN st
    ELSE LET observer == Head(observers_copy)
             b == beh[observer]
             obs == CASE b.op = "add" -> add_observer(st.observers, b.target)
                      [] b.op = "remove" -> remove_observer(st.observers, b.target)
                      [] OTHER -> st.observers
         IN Deliver(Tail(observers_copy), beh, at_publish,
                    [observers |-> obs,
                     received |-> [st.received EXCEPT ![observer] = @ + 1],
                     propagated |->
                        \/ observer_error_escapes(b.raises)
                        \/ /\ Tail(observers_copy) # <<>>
                           /\ iteration_fails(at_publish, obs)])

\* one _notify_* call: event is "blink" or "eye_data"
Notify(event) ==
    /\ delivery.serial < MaxPublishes
    /\ \E order \in Orders(observers), raisers \in SUBSET observers,
          editor \in Editors(observers, reachable) :
          LET beh == Callbacks(raisers, editor)
              r == Deliver(order, beh, observers,
                              [observers |-> observers,
                               received |-> [o \in Observers |-> 0],
                               propagated |-> FALSE])
          IN /\ observers' = r.observers
             /\ delivery' = [serial |-> delivery.serial + 1,
                             event |-> event,
                             snapshot |-> observers,
                             order |-> order,
                             callbacks |-> beh,
                             received |-> r.received,
                             propagated |-> r.propagated]
    /\ UNCHANGED <<reachable, pipelineVars, setupVars, hostVars>>

_notify_blink_detected == Notify("blink")
_notify_eye_data_updated == Notify("eye_data")

Subscribe ==
    /\ \E o \in reachable : observers' = add_observer(observers, o)
    /\ UNCHANGED <<reachable, delivery, pipelineVars, setupVars, hostVars>>

Unsubscribe ==
    /\ \E o \in reachable : observers' = remove_observer(observers, o)
    /\ UNCHANGED <<reachable, delivery, pipelineVars, setupVars, hostVars>>

\* the owner of observer o drops its last reference.  An object outside any
\* reference cycle is freed at once and leaves the WeakSet; one inside a
\* cycle stays in it until the cycle collector runs.
Release ==
    /\ \E o \in reachable, cyclic \in BOOLEAN :
          /\ reachable' = reachable \ {o}
          /\ observers' = IF cyclic THEN observers ELSE observers \ {o}
    /\ UNCHANGED <<delivery, pipelineVars, setupVars, hostVars>>

\* the cycle collector frees every unreachable observer
Collect ==
    /\ observers' = observers \cap reachable
    /\ observers' # observers
    /\ UNCHANGED <<reachable, delivery, pipelineVars, setupVars, hostVars>>

----------------------------------------------------------------------------
(* EyeTracker._update_blink_detection *)

\* the debounce test written with > instead of >=
StrictRun_update_blink_detection(avg_ear, fc, bc, cfg) ==
    IF FloatLess(avg_ear, cfg.EAR_THRESHOLD)
    THEN [frame_counter |-> fc + 1, blink_count |-> bc, blinked |-> FALSE]
    ELSE IF fc > cfg.CONSECUTIVE_FRAMES
         THEN [frame_counter |-> 0, blink_count |-> bc + 1, blinked |-> TRUE]
         ELSE [frame_counter |-> 0, blink_count |-> bc, blinked |-> FALSE]

\* the closed run's frames added to blink_count, instead of 1
CountFrames_update_blink_detection(avg_ear, fc, bc, cfg) ==
    IF FloatLess(avg_ear, cfg.EAR_THRESHOLD)
    THEN [frame_counter |-> fc + 1, blink_count |-> bc, blinked |-> FALSE]
    ELSE IF fc >= cfg.CONSECUTIVE_FRAMES
         THEN [frame_counter |-> 0, blink_count |-> bc + fc, blinked |-> TRUE]
         ELSE [frame_counter |-> 0, blink_count |-> bc, blinked |-> FALSE]

\* the counter reset only when a blink is counted
KeepRun_update_blink_detection(avg_ear, fc, bc, cfg) ==
    IF FloatLess(avg_ear, cfg.EAR_THRESHOLD)
    THEN [frame_counter |-> fc + 1, blink_count |-> bc, blinked |-> FALSE]
    ELSE IF fc >= cfg.CONSECUTIVE_FRAMES
         THEN [frame_counter |-> 0, blink_count |-> bc + 1, blinked |-> TRUE]
         ELSE [frame_counter |-> fc, blink_count |-> bc, blinked |-> FALSE]

_update_blink_detection(avg_ear, fc, bc, cfg) ==
    IF FloatLess(avg_ear, cfg.EAR_THRESHOLD)
    THEN [frame_counter |-> fc + 1, blink_count |-> bc, blinked |-> FALSE]
    ELSE IF fc >= cfg.CONSECUTIVE_FRAMES
         THEN [frame_counter |-> 0, blink_count |-> bc + 1, blinked |-> TRUE]
         ELSE [frame_counter |-> 0, blink_count |-> bc, blinked |-> FALSE]

----------------------------------------------------------------------------
(* NotificationManager *)

\* the rate test written with <= instead of <
InclusiveRateBelowThreshold(blinks_in_interval, time_elapsed, cfg) ==
    blinks_in_interval * 60 <= cfg.MIN_BLINKS_PER_MINUTE * time_elapsed

\* (blinks_in_interval / time_elapsed) * 60 < MIN_BLINKS_PER_MINUTE, for
\* time_elapsed > 0, in exact arithmetic
RateBelowThreshold(blinks_in_interval, time_elapsed, cfg) ==
    blinks_in_interval * 60 < cfg.MIN_BLINKS_PER_MINUTE * time_elapsed

\* the interval test written with > instead of >=
StrictIntervalElapsed(time_elapsed, cfg) ==
    time_elapsed * 1000 > cfg.NOTIFICATION_CHECK_INTERVAL

\* time_elapsed >= NOTIFICATION_CHECK_INTERVAL / 1000
IntervalElapsed(time_elapsed, cfg) ==
    time_elapsed * 1000 >= cfg.NOTIFICATION_CHECK_INTERVAL

\* the cooldown test written with > instead of <
InvertedCooldown_send_low_blink_notification(lnt, current_time, sink_ok) ==
    IF lnt # None /\ current_time - Get(lnt) > notification_cooldown
    THEN [last_notification_time |-> lnt, event |-> "suppressed", calls |-> 0]
    ELSE IF sink_ok
         THEN [last_notification_time |-> Some(current_time),
               event |-> "delivered", calls |-> 1]
         ELSE [last_notification_time |-> lnt,
               event |-> "failed", calls |-> 1]

\* notification.notify called outside any try block: the sink's exception
\* leaves the method ("raised")
Unguarded_send_low_blink_notification(lnt, current_time, sink_ok) ==
    IF lnt # None /\ current_time - Get(lnt) < notification_cooldown
    THEN [last_notification_time |-> lnt, event |-> "suppressed", calls |-> 0]
    ELSE IF sink_ok
         THEN [last_notification_time |-> Some(current_time),
               event |-> "delivered", calls |-> 1]
         ELSE [last_notification_time |-> lnt,
               event |-> "raised", calls |-> 1]

\* last_notification_time assigned before notification.notify is called, so
\* that a failed call starts the cooldown too
EagerCooldown_send_low_blink_notification(lnt, current_time, sink_ok) ==
    IF lnt # None /\ current_time - Get(lnt) < notification_cooldown
    THEN [last_notification_time |-> lnt, event |-> "suppressed", calls |-> 0]
    ELSE IF sink_ok
         THEN [last_notification_time |-> Some(current_time),
               event |-> "delivered", calls |-> 1]
         ELSE [last_notification_time |-> Some(current_time),
               event |-> "failed", calls |-> 1]

\* current_time is the second clock read; sink_ok says whether
\* notification.notify returns (TRUE) or raises (FALSE).  event tells how
\* the method ended: "suppressed" by the cooldown, "delivered", "failed"
\* (the sink raised and the except clause logged it); calls counts the
\* calls of notification.notify
_send_low_blink_notification(lnt, current_time, sink_ok) ==
    IF lnt # None /\ current_time - Get(lnt) < notification_cooldown
    THEN [last_notification_time |-> lnt, event |-> "suppressed", calls |-> 0]
    ELSE IF sink_ok
         THEN [last_notification_time |-> Some(current_time),
               event |-> "delivered", calls |-> 1]
         ELSE [last_notification_time |-> lnt,
               event |-> "failed", calls |-> 1]

\* the "reset for next interval" lines moved out of the interval test, so
\* that every call restarts the window
AlwaysReset_check_blink_rate_and_notify(m, current_blink_count_arg, current_time, drift, sink_ok, cfg) ==
    LET time_elapsed == current_time - m.last_check_time IN
    IF IntervalElapsed(time_elapsed, cfg) /\ time_elapsed = 0
    THEN \* blinks_in_interval / time_elapsed raises ZeroDivisionError
         [last_blink_count |-> m.last_blink_count,
          last_check_time |-> m.last_check_time,
          last_notification_time |-> m.last_notification_time,
          event |-> "raised",
          calls |-> 0,
          clock |-> current_time]
    ELSE IF IntervalElapsed(time_elapsed, cfg)
    THEN LET blinks_in_interval == current_blink_count_arg - m.last_blink_count
             below == RateBelowThreshold(blinks_in_interval, time_elapsed, cfg)
             sent == IF below
                     THEN _send_low_blink_notification(
                              m.last_notification_time, current_time + drift, sink_ok)
                     ELSE [last_notification_time |-> m.last_notification_time,
                           event |-> "no_breach", calls |-> 0]
         IN [last_blink_count |-> current_blink_count_arg,
             last_check_time |-> current_time,
             last_notification_time |-> sent.last_notification_time,
             event |-> sent.event,
             calls |-> sent.calls,
             clock |-> IF below THEN current_time + drift ELSE current_time]
    ELSE [last_blink_count |-> current_blink_count_arg,
          last_check_time |-> current_time,
          last_notification_time |-> m.last_notification_time,
          event |-> "early",
          calls |-> 0,
          clock |-> current_time]

\* the "reset for next interval" lines moved into an else of the rate test,
\* so that a breaching window is not restarted
ResetUnlessBreach_check_blink_rate_and_notify(m, current_blink_count_arg, current_time, drift, sink_ok, cfg) ==
    LET time_elapsed == current_time - m.last_check_time IN
    IF IntervalElapsed(time_elapsed, cfg) /\ time_elapsed = 0
    THEN \* blinks_in_interval / time_elapsed raises ZeroDivisionError
         [last_blink_count |-> m.last_blink_count,
          last_check_time |-> m.last_check_time,
          last_notification_time |-> m.last_notification_time,
          event |-> "raised",
          calls |-> 0,
          clock |-> current_time]
    ELSE IF IntervalElapsed(time_elapsed, cfg)
    THEN LET blinks_in_interval == current_blink_count_arg - m.last_blink_count
             below == RateBelowThreshold(blinks_in_interval, time_elapsed, cfg)
             sent == IF below
                     THEN _send_low_blink_notification(
                              m.last_notification_time, current_time + drift, sink_ok)
                     ELSE [last_notification_time |-> m.last_notification_time,
                           event |-> "no_breach", calls |-> 0]
         IN [last_blink_count |-> IF below THEN m.last_blink_count
                                  ELSE current_blink_count_arg,
             last_check_time |-> IF below THEN m.last_check_time ELSE current_time,
             last_notification_time |-> sent.last_notification_time,
             event |-> sent.event,
             calls |-> sent.calls,
             clock |-> IF below THEN current_time + drift ELSE current_time]
    ELSE [last_blink_count |-> m.last_blink_count,
          last_check_time |-> m.last_check_time,
          last_notification_time |-> m.last_notification_time,
          event |-> "early",
          calls |-> 0,
          clock |-> current_time]

\* the baseline of the next window accumulated ("+=") instead of assigned
Accumulate_check_blink_rate_and_notify(m, current_blink_count_arg, current_time, drift, sink_ok, cfg) ==
    LET time_elapsed == current_time - m.last_check_time IN
    IF IntervalElapsed(time_elapsed, cfg) /\ time_elapsed = 0
    THEN \* blinks_in_interval / time_elapsed raises ZeroDivisionError
         [last_blink_count |-> m.last_blink_count,
          last_check_time |-> m.last_check_time,
          last_notification_time |-> m.last_notification_time,
          event |-> "raised",
          calls |-> 0,
          clock |-> current_time]
    ELSE IF IntervalElapsed(time_elapsed, cfg)
    THEN LET blinks_in_interval == current_blink_count_arg - m.last_blink_count
             below == RateBelowThreshold(blinks_in_interval, time_elapsed, cfg)
             sent == IF below
                     THEN _send_low_blink_notification(
                              m.last_notification_time, current_time + drift, sink_ok)
                     ELSE [last_notification_time |-> m.last_notification_time,
                           event |-> "no_breach", calls |-> 0]
             propagates == sent.event = "raised"
         IN [last_blink_count |-> IF propagates THEN m.last_blink_count
                                  ELSE m.last_blink_count + current_blink_count_arg,
             last_check_time |-> IF propagates THEN m.last_check_time
                                 ELSE current_time,
             last_notification_time |-> sent.last_notification_time,
             event |-> sent.event,
             calls |-> sent.calls,
             clock |-> IF below THEN current_time + drift ELSE current_time]
    ELSE [last_blink_count |-> m.last_blink_count,
          last_check_time |-> m.last_check_time,
          last_notification_time |-> m.last_notification_time,
          event |-> "early",
          calls |-> 0,
          clock |-> current_time]

\* m is the manager's state, current_time the first clock read, drift the
\* seconds that pass before _send_low_blink_notification reads the clock.
\* An exception leaving _send_low_blink_notification ("raised") would leave
\* this method before its "reset for next interval" lines; the try block of
\* _send_low_blink_notification lets none leave.
check_blink_rate_and_notify(m, current_blink_count_arg, current_time, drift, sink_ok, cfg) ==
    LET time_elapsed == current_time - m.last_check_time IN
    IF IntervalElapsed(time_elapsed, cfg) /\ time_elapsed = 0
    THEN \* blinks_in_interval / time_elapsed raises ZeroDivisionError
         [last_blink_count |-> m.last_blink_count,
          last_check_time |-> m.last_check_time,
          last_notification_time |-> m.last_notification_time,
          event |-> "raised",
          calls |-> 0,
          clock |-> current_time]
    ELSE IF IntervalElapsed(time_elapsed, cfg)
    THEN LET blinks_in_interval == current_blink_count_arg - m.last_blink_count
             below == RateBelowThreshold(blinks_in_interval, time_elapsed, cfg)
             sent == IF below
                     THEN _send_low_blink_notification(
                              m.last_notification_time, current_time + drift, sink_ok)
                     ELSE [last_notification_time |-> m.last_notification_time,
                           event |-> "no_breach", calls |-> 0]
             propagates == sent.event = "raised"
         IN [last_blink_count |-> IF propagates THEN m.last_blink_count
                                  ELSE current_blink_count_arg,
             last_check_time |-> IF propagates THEN m.last_check_time
                                 ELSE current_time,
             last_notification_time |-> sent.last_notification_time,
             event |-> sent.event,
             calls |-> sent.calls,
             clock |-> IF below THEN current_time + drift ELSE current_time]
    ELSE [last_blink_count |-> m.last_blink_count,
          last_check_time |-> m.last_check_time,
          last_notification_time |-> m.last_notification_time,
          event |-> "early",
          calls |-> 0,
          clock |-> current_time]

\* reset_tracking without its last_notification_time = None line
KeepCooldown_reset_tracking(m, current_time) ==
    [last_blink_count |-> 0,
     last_check_time |-> current_time,
     last_notification_time |-> m.last_notification_time]

\* m is the manager's state (self)
reset_tracking(m, current_time) ==
    [last_blink_count |-> 0,
     last_check_time |-> current_time,
     last_notification_time |-> None]

Manager ==
    [last_blink_count |-> last_blink_count,
     last_check_time |-> last_check_time,
     last_notification_time |-> last_notification_time]

----------------------------------------------------------------------------
(* EyeTrackerWidget.on_blink_detected: the one observer the widget        *)
(* registers on the tracker.  Copies the count, then runs the monitor.    *)
(* drift and sink_ok are what the clock and the Alert Sink do during the  *)
(* call.                                                                   *)

Remember(log, entry) == IF Len(log) < 2 THEN Append(log, entry) ELSE <<log[2], entry>>

\* on_blink_detected without the assignment of line 197
Uncopied_on_blink_detected(blink_count) ==
    \E drift \in ClockDrifts, sink_ok \in BOOLEAN :
    LET r == check_blink_rate_and_notify(Manager, blink_count, now, drift, sink_ok, config)
    IN /\ current_blink_count' = current_blink_count
       /\ last_blink_count' = r.last_blink_count
       /\ last_check_time' = r.last_check_time
       /\ last_notification_time' = r.last_notification_time
       /\ now' = r.clock
       /\ mon_event' = r.event
       /\ notify_calls' = r.calls
       /\ deliveries' = IF r.event = "delivered"
                        THEN Remember(deliveries, [time |-> r.clock, epoch |-> resets])
                        ELSE deliveries
       /\ window_blinks' = IF r.event \in {"early", "raised"}
                           THEN window_blinks + 1 ELSE 0
       /\ monitor_counts' = Append(monitor_counts, blink_count)

\* the monitor called with self.current_blink_count before line 197 has
\* assigned it
StaleCount_on_blink_detected(blink_count) ==
    \E drift \in ClockDrifts, sink_ok \in BOOLEAN :
    LET r == check_blink_rate_and_notify(Manager, current_blink_count, now, drift, sink_ok, config)
    IN /\ current_blink_count' = blink_count
       /\ last_blink_count' = r.last_blink_count
       /\ last_check_time' = r.last_check_time
       /\ last_notification_time' = r.last_notification_time
       /\ now' = r.clock
       /\ mon_event' = r.event
       /\ notify_calls' = r.calls
       /\ deliveries' = IF r.event = "delivered"
                        THEN Remember(deliveries, [time |-> r.clock, epoch |-> resets])
                        ELSE deliveries
       /\ window_blinks' = IF r.event \in {"early", "raised"}
                           THEN window_blinks + 1 ELSE 0
       /\ monitor_counts' = Append(monitor_counts, current_blink_count)

on_blink_detected(blink_count) ==
    \E drift \in ClockDrifts, sink_ok \in BOOLEAN :
    LET r == check_blink_rate_and_notify(Manager, blink_count, now, drift, sink_ok, config)
    IN /\ current_blink_count' = blink_count
       /\ last_blink_count' = r.last_blink_count
       /\ last_check_time' = r.last_check_time
       /\ last_notification_time' = r.last_notification_time
       /\ now' = r.clock
       /\ mon_event' = r.event
       /\ notify_calls' = r.calls
       /\ deliveries' = IF r.event = "delivered"
                        THEN Remember(deliveries, [time |-> r.clock, epoch |-> resets])
                        ELSE deliveries
       /\ window_blinks' = IF r.event \in {"early", "raised"}
                           THEN window_blinks + 1 ELSE 0
       /\ monitor_counts' = Append(monitor_counts, blink_count)

NoBlinkPublished ==
    /\ mon_event' = "none"
    /\ notify_calls' = 0
    /\ UNCHANGED <<current_blink_count, monitorVars, now, deliveries, window_blinks,
                   monitor_counts>>

----------------------------------------------------------------------------
(* EyeTracker.process_frame: one tick.  result is what face_mesh.process  *)
(* does on this frame when it is invoked.                                  *)

\* the test of line 92 written with > instead of >=
Strict_should_process(counter, cfg) == counter > cfg.MAX_FRAME_SKIP

\* the test of line 92 guarded by the truth value of MAX_FRAME_SKIP
\* ("MAX_FRAME_SKIP and counter >= MAX_FRAME_SKIP")
Truthy_should_process(counter, cfg) ==
    cfg.MAX_FRAME_SKIP # 0 /\ counter >= cfg.MAX_FRAME_SKIP

\* every tick processed: the test of line 92 replaced by True
Always_should_process(counter, cfg) == TRUE

\* the test of line 92, on the counter line 91 has incremented
should_process(counter, cfg) == counter >= cfg.MAX_FRAME_SKIP

\* no fallback on the cache: the snapshot's landmarks cleared when the
\* provider finds no face
Clear_UseCachedLandmarks(d, cache) ==
    [d EXCEPT !.left_eye_landmarks = None, !.right_eye_landmarks = None]

\* an else branch that fills the snapshot with placeholder landmark sets
\* when the cache is empty
Placeholder_UseCachedLandmarks(d, cache) ==
    IF cache # None
    THEN [d EXCEPT !.left_eye_landmarks = Some(Get(cache)[1]),
                   !.right_eye_landmarks = Some(Get(cache)[2])]
    ELSE [d EXCEPT !.left_eye_landmarks = Some(LandmarkSet("L", 0)),
                   !.right_eye_landmarks = Some(LandmarkSet("R", 0))]

\* the elif branch of lines 123-127: d is self.data, cache is
\* self._last_valid_landmarks
UseCachedLandmarks(d, cache) ==
    IF cache # None
    THEN [d EXCEPT !.left_eye_landmarks = Some(Get(cache)[1]),
                   !.right_eye_landmarks = Some(Get(cache)[2])]
    ELSE d

\* the exception raised inside the try block of lines 89-131, or "none":
\* face_mesh.process raising, or _calculate_ear indexing a short eye
frame_error(counter, result, cfg) ==
    IF ~should_process(counter, cfg) THEN "none"
    ELSE IF result.kind = "raise" THEN "ProviderError"
    ELSE IF result.kind = "detection"
            /\ ( \/ IndexError(ExtractEye(result.left_eye, cfg.LEFT_EYE_INDICES))
                 \/ IndexError(ExtractEye(result.right_eye, cfg.RIGHT_EYE_INDICES)) )
    THEN "IndexError"
    ELSE "none"

\* an except clause that logs and raises again
Reraise_except_Exception(error) == error

\* the except clause of lines 133-135: the exception that leaves
\* process_frame, "none" as the clause only logs
except_Exception(error) == "none"

\* process_frame with a cache that is dropped once it was read on a tick
\* without detection
ForgetCache_process_frame(result) ==
    LET counter == frame_skip_counter + 1
    IN
    /\ UNCHANGED <<config, resets, advances>>
    /\ IF ~should_process(counter, config)
       THEN /\ frame_skip_counter' = counter
            /\ provider_calls' = 0
            /\ UNCHANGED <<last_valid_landmarks, data, frame_counter>>
            /\ NoBlinkPublished
       ELSE
       /\ frame_skip_counter' = 0
       /\ provider_calls' = 1
       /\ CASE result.kind = "raise" ->
                 /\ UNCHANGED <<last_valid_landmarks, data, frame_counter>>
                 /\ NoBlinkPublished
            [] result.kind = "none" ->
                 /\ data' = UseCachedLandmarks(data, last_valid_landmarks)
                 /\ last_valid_landmarks' = None
                 /\ UNCHANGED frame_counter
                 /\ NoBlinkPublished
            [] result.kind = "detection" ->
                 LET left_eye == ExtractEye(result.left_eye, config.LEFT_EYE_INDICES)
                     right_eye == ExtractEye(result.right_eye, config.RIGHT_EYE_INDICES)
                     shown == [data EXCEPT !.left_eye_landmarks = Some(left_eye),
                                           !.right_eye_landmarks = Some(right_eye)]
                     left_ear == _calculate_ear(left_eye)
                     right_ear == _calculate_ear(right_eye)
                     avg_ear == AvgEar(left_ear, right_ear)
                     d == _update_blink_detection(avg_ear, frame_counter,
                                                  data.blink_count, config)
                 IN /\ last_valid_landmarks' = Some(<<left_eye, right_eye>>)
                    /\ IF IndexError(left_eye)
                       THEN /\ data' = shown
                            /\ UNCHANGED frame_counter
                            /\ NoBlinkPublished
                       ELSE IF IndexError(right_eye)
                       THEN /\ data' = [shown EXCEPT !.left_ear = left_ear]
                            /\ UNCHANGED frame_counter
                            /\ NoBlinkPublished
                       ELSE /\ data' = [shown EXCEPT !.blink_count = d.blink_count,
                                                     !.left_ear = left_ear,
                                                     !.right_ear = right_ear,
                                                     !.avg_ear = avg_ear]
                            /\ frame_counter' = d.frame_counter
                            /\ IF d.blinked
                               THEN on_blink_detected(d.blink_count)
                               ELSE NoBlinkPublished

\* process_frame with the counter reset after face_mesh.process returned,
\* so that a provider error leaves the counter where it was
LateReset_process_frame(result) ==
    LET counter == frame_skip_counter + 1
    IN
    /\ UNCHANGED <<config, resets, advances>>
    /\ IF ~should_process(counter, config)
       THEN /\ frame_skip_counter' = counter
            /\ provider_calls' = 0
            /\ UNCHANGED <<last_valid_landmarks, data, frame_counter>>
            /\ NoBlinkPublished
       ELSE
       /\ frame_skip_counter' = IF result.kind = "raise" THEN counter ELSE 0
       /\ provider_calls' = 1
       /\ CASE result.kind = "raise" ->
                 /\ UNCHANGED <<last_valid_landmarks, data, frame_counter>>
                 /\ NoBlinkPublished
            [] result.kind = "none" ->
                 /\ data' = UseCachedLandmarks(data, last_valid_landmarks)
                 /\ UNCHANGED <<last_valid_landmarks, frame_counter>>
                 /\ NoBlinkPublished
            [] result.kind = "detection" ->
                 LET left_eye == ExtractEye(result.left_eye, config.LEFT_EYE_INDICES)
                     right_eye == ExtractEye(result.right_eye, config.RIGHT_EYE_INDICES)
                     shown == [data EXCEPT !.left_eye_landmarks = Some(left_eye),
                                           !.right_eye_landmarks = Some(right_eye)]
                     left_ear == _calculate_ear(left_eye)
                     right_ear == _calculate_ear(right_eye)
                     avg_ear == AvgEar(left_ear, right_ear)
                     d == _update_blink_detection(avg_ear, frame_counter,
                                                  data.blink_count, config)
                 IN /\ last_valid_landmarks' = Some(<<left_eye, right_eye>>)
                    /\ IF IndexError(left_eye)
                       THEN /\ data' = shown
                            /\ UNCHANGED frame_counter
                            /\ NoBlinkPublished
                       ELSE IF IndexError(right_eye)
                       THEN /\ data' = [shown EXCEPT !.left_ear = left_ear]
                            /\ UNCHANGED frame_counter
                            /\ NoBlinkPublished
                       ELSE /\ data' = [shown EXCEPT !.blink_count = d.blink_count,
                                                     !.left_ear = left_ear,
                                                     !.right_ear = right_ear,
                                                     !.avg_ear = avg_ear]
                            /\ frame_counter' = d.frame_counter
                            /\ IF d.blinked
                               THEN on_blink_detected(d.blink_count)
                               ELSE NoBlinkPublished

\* process_frame with a tick without detection ending the open run
ResetRun_process_frame(result) ==
    LET counter == frame_skip_counter + 1
    IN
    /\ UNCHANGED <<config, resets, advances>>
    /\ IF ~should_process(counter, config)
       THEN /\ frame_skip_counter' = counter
            /\ provider_calls' = 0
            /\ UNCHANGED <<last_valid_landmarks, data, frame_counter>>
            /\ NoBlinkPublished
       ELSE
       /\ frame_skip_counter' = 0
       /\ provider_calls' = 1
       /\ CASE result.kind = "raise" ->
                 /\ UNCHANGED <<last_valid_landmarks, data, frame_counter>>
                 /\ NoBlinkPublished
            [] result.kind = "none" ->
                 /\ data' = UseCachedLandmarks(data, last_valid_landmarks)
                 /\ UNCHANGED last_valid_landmarks
                 /\ frame_counter' = 0
                 /\ NoBlinkPublished
            [] result.kind = "detection" ->
                 LET left_eye == ExtractEye(result.left_eye, config.LEFT_EYE_INDICES)
                     right_eye == ExtractEye(result.right_eye, config.RIGHT_EYE_INDICES)
                     shown == [data EXCEPT !.left_eye_landmarks = Some(left_eye),
                                           !.right_eye_landmarks = Some(right_eye)]
                     left_ear == _calculate_ear(left_eye)
                     right_ear == _calculate_ear(right_eye)
                     avg_ear == AvgEar(left_ear, right_ear)
                     d == _update_blink_detection(avg_ear, frame_counter,
                                                  data.blink_count, config)
                 IN /\ last_valid_landmarks' = Some(<<left_eye, right_eye>>)
                    /\ IF IndexError(left_eye)
                       THEN /\ data' = shown
                            /\ UNCHANGED frame_counter
                            /\ NoBlinkPublished
                       ELSE IF IndexError(right_eye)
                       THEN /\ data' = [shown EXCEPT !.left_ear = left_ear]
                            /\ UNCHANGED frame_counter
                            /\ NoBlinkPublished
                       ELSE /\ data' = [shown EXCEPT !.blink_count = d.blink_count,
                                                     !.left_ear = left_ear,
                                                     !.right_ear = right_ear,
                                                     !.avg_ear = avg_ear]
                            /\ frame_counter' = d.frame_counter
                            /\ IF d.blinked
                               THEN on_blink_detected(d.blink_count)
                               ELSE NoBlinkPublished

process_frame(result) ==
    LET counter == frame_skip_counter + 1
    IN
    /\ UNCHANGED <<config, resets, advances>>
    /\ IF ~should_process(counter, config)
       THEN /\ frame_skip_counter' = counter
            /\ provider_calls' = 0
            /\ UNCHANGED <<last_valid_landmarks, data, frame_counter>>
            /\ NoBlinkPublished
       ELSE
       /\ frame_skip_counter' = 0
       /\ provider_calls' = 1
       /\ CASE result.kind = "raise" ->
                 /\ UNCHANGED <<last_valid_landmarks, data, frame_counter>>
                 /\ NoBlinkPublished
            [] result.kind = "none" ->
                 /\ data' = UseCachedLandmarks(data, last_valid_landmarks)
                 /\ UNCHANGED <<last_valid_landmarks, frame_counter>>
                 /\ NoBlinkPublished
            [] result.kind = "detection" ->
                 LET left_eye == ExtractEye(result.left_eye, config.LEFT_EYE_INDICES)
                     right_eye == ExtractEye(result.right_eye, config.RIGHT_EYE_INDICES)
                     shown == [data EXCEPT !.left_eye_landmarks = Some(left_eye),
                                           !.right_eye_landmarks = Some(right_eye)]
                     left_ear == _calculate_ear(left_eye)
                     right_ear == _calculate_ear(right_eye)
                     avg_ear == AvgEar(left_ear, right_ear)
                     d == _update_blink_detection(avg_ear, frame_counter,
                                                  data.blink_count, config)
                 IN /\ last_valid_landmarks' = Some(<<left_eye, right_eye>>)
                    /\ IF IndexError(left_eye)
                       THEN /\ data' = shown
                            /\ UNCHANGED frame_counter
                            /\ NoBlinkPublished
                       ELSE IF IndexError(right_eye)
                       THEN /\ data' = [shown EXCEPT !.left_ear = left_ear]
                            /\ UNCHANGED frame_counter
                            /\ NoBlinkPublished
                       ELSE /\ data' = [shown EXCEPT !.blink_count = d.blink_count,
                                                     !.left_ear = left_ear,
                                                     !.right_ear = right_ear,
                                                     !.avg_ear = avg_ear]
                            /\ frame_counter' = d.frame_counter
                            /\ IF d.blinked
                               THEN on_blink_detected(d.blink_count)
                               ELSE NoBlinkPublished

----------------------------------------------------------------------------
(* Pipeline specification: ticks, the clock, and reset_tracking *)

InitTracker ==
    /\ frame_skip_counter = 0
    /\ last_valid_landmarks = None
    /\ data = EyeTrackingData
    /\ frame_counter = 0

InitManager ==
    /\ current_blink_count = 0
    /\ last_blink_count = 0
    /\ last_check_time = now
    /\ last_notification_time = None

InitHistory ==
    /\ samples = <<>>
    /\ counts = <<>>
    /\ mon_event = "none"
    /\ notify_calls = 0
    /\ deliveries = <<>>
    /\ resets = 0
    /\ window_blinks = 0
    /\ monitor_counts = <<>>
    /\ last_failure = None
    /\ provider_calls = 0
    /\ invoked_log = <<>>
    /\ last_result = None
    /\ prev_result = None
    /\ last_detected = None
    /\ eye_updates = 0
    /\ frame_exit = "none"
    /\ result_log = <<>>
    /\ published = <<>>

\* EyeTrackerWidget.__init__ registers the widget as the one observer
InitObservers ==
    /\ observers = {"widget"}
    /\ reachable = Observers
    /\ delivery = NoDelivery

\* the configuration was constructed from the values it holds
InitSetup ==
    /\ requested = config
    /\ construction = "ok"

\* the application after login: the widget's timer runs, the tracker's
\* face mesh is open, the main window is shown
InitHost ==
    /\ video_timer = "active"
    /\ face_mesh = "open"
    /\ window = "visible"
    /\ tray_icon = "shown"
    /\ app = "running"
    /\ teardown_log = <<>>
    /\ session_posts = <<>>

Init ==
    /\ config \in {[Configuration EXCEPT !.MIN_BLINKS_PER_MINUTE = m] : m \in MinBlinksChoices}
    /\ now = 0
    /\ advances = 0
    /\ InitTracker
    /\ InitManager
    /\ InitHistory
    /\ InitObservers
    /\ InitSetup
    /\ InitHost

Tick ==
    /\ \E result \in ProviderResults(PipelineSamples) : process_frame(result)
    /\ data'.blink_count <= MaxBlinks
    /\ frame_counter' <= MaxRun
    /\ now' - Instant(advances) \in ClockDrifts
    /\ UNCHANGED <<historyVars, tickVars, last_failure, frameVars, hubVars, setupVars, hostVars>>

Advance ==
    /\ advances < MaxAdvances
    /\ advances' = advances + 1
    /\ now' = now + (Instant(advances + 1) - Instant(advances))
    /\ mon_event' = "none"
    /\ notify_calls' = 0
    /\ UNCHANGED <<config, trackerVars, current_blink_count, monitorVars,
                   historyVars, deliveries, resets, window_blinks, monitor_counts,
                   last_failure, provider_calls, tickVars, frameVars, hubVars, setupVars, hostVars>>

ResetTracking ==
    /\ resets < MaxResets
    /\ LET r == reset_tracking(Manager, now)
       IN /\ last_blink_count' = r.last_blink_count
          /\ last_check_time' = r.last_check_time
          /\ last_notification_time' = r.last_notification_time
    /\ resets' = resets + 1
    /\ mon_event' = "reset"
    /\ notify_calls' = 0
    /\ window_blinks' = 0
    /\ UNCHANGED <<config, trackerVars, current_blink_count, now, advances, historyVars,
                   deliveries, monitor_counts, last_failure, provider_calls, tickVars,
                   frameVars, hubVars, setupVars, hostVars>>

Next == Tick \/ Advance \/ ResetTracking

Spec == Init /\ [][Next]_vars

\* The video timer fires update_frame every VIDEO_UPDATE_INTERVAL ms for as
\* long as the widget lives, and time passes.
FairSpec == Spec /\ WF_vars(Tick) /\ WF_vars(Advance)

----------------------------------------------------------------------------
(* Alert specification: the pipeline under the default configuration, with *)
(* no reset_tracking, remembering the latest failed notify call            *)

InitAlerts ==
    /\ config = Configuration
    /\ now = 0
    /\ advances = 0
    /\ InitTracker
    /\ InitManager
    /\ InitHistory
    /\ InitObservers
    /\ InitSetup
    /\ InitHost

TickAlerts ==
    /\ \E result \in ProviderResults(PipelineSamples) : process_frame(result)
    /\ data'.blink_count <= MaxBlinks
    /\ frame_counter' <= MaxRun
    /\ now' - Instant(advances) \in ClockDrifts
    /\ last_failure' = IF notify_calls' >= 1 /\ mon_event' # "delivered"
                       THEN Some(now') ELSE last_failure
    /\ UNCHANGED <<historyVars, tickVars, frameVars, hubVars, setupVars, hostVars>>

NextAlerts == TickAlerts \/ Advance

SpecAlerts == InitAlerts /\ [][NextAlerts]_vars

----------------------------------------------------------------------------
(* Scheduler specification: ticks only, under each drawn MAX_FRAME_SKIP,   *)
(* recording for every tick whether face_mesh.process was invoked          *)

InitScheduler ==
    /\ config \in {[Configuration EXCEPT !.MAX_FRAME_SKIP = n] : n \in 0..MaxSkip}
    /\ now = 0
    /\ advances = 0
    /\ InitTracker
    /\ InitManager
    /\ InitHistory
    /\ InitObservers
    /\ InitSetup
    /\ InitHost

TickScheduled ==
    /\ Len(invoked_log) < MaxTicks
    /\ \E result \in ProviderResults(PipelineSamples) :
          /\ process_frame(result)
          /\ last_result' = IF provider_calls' = 0 THEN None ELSE Some(result)
    /\ invoked_log' = Append(invoked_log, provider_calls')
    /\ UNCHANGED <<historyVars, last_failure, frameVars, hubVars, setupVars, hostVars>>

NextScheduler == TickScheduled

SpecScheduler == InitScheduler /\ [][NextScheduler]_vars

----------------------------------------------------------------------------
(* Frame specification: ticks only, with frames whose eyes are degenerate, *)
(* under index lists of five or six points and MAX_FRAME_SKIP 0 or 2       *)

FrameResults ==
    ProviderResults(PipelineSamples)
        \cup {DegenerateDetection(v, 30) : v \in {0, 10}}

InitFrames ==
    /\ config \in {[Configuration EXCEPT !.MAX_FRAME_SKIP = n,
                                         !.LEFT_EYE_INDICES = SubSeq(LEFT_EYE_INDICES, 1, l),
                                         !.RIGHT_EYE_INDICES = SubSeq(RIGHT_EYE_INDICES, 1, r)] :
                      n \in {0, 2}, l \in 5..6, r \in 5..6}
    /\ now = 0
    /\ advances = 0
    /\ InitTracker
    /\ InitManager
    /\ InitHistory
    /\ InitObservers
    /\ InitSetup
    /\ InitHost

TickFrames ==
    /\ Len(invoked_log) < MaxFrames
    /\ \E result \in FrameResults :
          LET error == frame_error(frame_skip_counter + 1, result, config) IN
          /\ process_frame(result)
          /\ last_result' = IF provider_calls' = 0 THEN None ELSE Some(result)
          /\ last_detected' =
                IF provider_calls' = 1 /\ result.kind = "detection"
                THEN Some(<<ExtractEye(result.left_eye, config.LEFT_EYE_INDICES),
                            ExtractEye(result.right_eye, config.RIGHT_EYE_INDICES)>>)
                ELSE last_detected
          /\ eye_updates' = IF error = "none" THEN 1 ELSE 0
          /\ frame_exit' = IF except_Exception(error) = "none"
                           THEN "returned" ELSE "raised"
    /\ prev_result' = last_result
    /\ invoked_log' = Append(invoked_log, provider_calls')
    /\ UNCHANGED <<historyVars, last_failure, result_log, published, hubVars,
                   setupVars, hostVars>>

NextFrames == TickFrames

SpecFrames == InitFrames /\ [][NextFrames]_vars

----------------------------------------------------------------------------
(* Hub specification: observers subscribe, unsubscribe and die between the *)
(* publishes of a tracker that starts with no observer                     *)

InitHub ==
    /\ config = Configuration
    /\ now = 0
    /\ advances = 0
    /\ InitTracker
    /\ InitManager
    /\ InitHistory
    /\ InitSetup
    /\ InitHost
    /\ observers = {}
    /\ reachable = Observers
    /\ delivery = NoDelivery

NextHub ==
    \/ Subscribe
    \/ Unsubscribe
    \/ Release
    \/ Collect
    \/ _notify_blink_detected
    \/ _notify_eye_data_updated

SpecHub == InitHub /\ [][NextHub]_vars

----------------------------------------------------------------------------
(* Construction specification: Configuration(...) is called with the      *)
(* requested values; the tracker runs its ticks on the configuration when *)
(* the construction has returned                                          *)

\* the default configuration with one field replaced, and the
\* EAR_THRESHOLD values around both ends of its range
ConfigRequests ==
    {[Configuration EXCEPT !.EAR_THRESHOLD = t] : t \in {-1, 0, 21, 100, 101}}
    \cup {[Configuration EXCEPT !.MIN_DETECTION_CONFIDENCE = c] : c \in {-1, 101}}
    \cup {[Configuration EXCEPT !.MIN_TRACKING_CONFIDENCE = c] : c \in {-1, 101}}
    \cup {[Configuration EXCEPT !.CONSECUTIVE_FRAMES = n] : n \in {-1, 0}}
    \cup {[Configuration EXCEPT !.MAX_FRAME_SKIP = n] : n \in {-1, 1}}
    \cup {[Configuration EXCEPT !.MIN_BLINKS_PER_MINUTE = n] : n \in {-1, 0}}
    \cup {[Configuration EXCEPT !.NOTIFICATION_CHECK_INTERVAL = n] : n \in {-1000, 0}}
    \cup {[Configuration EXCEPT !.LEFT_EYE_INDICES = SubSeq(LEFT_EYE_INDICES, 1, 5)],
          [Configuration EXCEPT !.RIGHT_EYE_INDICES = Append(RIGHT_EYE_INDICES, 374)]}

InitConfig ==
    /\ requested \in ConfigRequests
    /\ construction = "pending"
    /\ config = requested
    /\ now = 0
    /\ advances = 0
    /\ InitTracker
    /\ InitManager
    /\ InitHistory
    /\ InitObservers
    /\ InitHost

\* Configuration(...) returns or raises
Construct ==
    /\ construction = "pending"
    /\ construction' = __post_init__(requested)
    /\ UNCHANGED <<requested, pipelineVars, hubVars, hostVars>>

\* a tick of the tracker built on the constructed configuration
TickConfigured ==
    /\ construction = "ok"
    /\ Len(samples) < MaxSetupTicks
    /\ \E e \in PipelineSamples : process_frame(Detection(e))
    /\ samples' = Append(samples, data'.avg_ear)
    /\ counts' = Append(counts, data'.blink_count)
    /\ UNCHANGED <<tickVars, last_failure, frameVars, hubVars, setupVars, hostVars>>

NextConfig == Construct \/ TickConfigured

SpecConfig == InitConfig /\ [][NextConfig]_vars

----------------------------------------------------------------------------
(* Teardown specification: the widget's timer drives ticks until the user *)
(* closes the main window or chooses Quit in the tray menu                *)

\* everything a teardown path leaves alone besides the snapshot
keptVars ==
    <<config, frame_skip_counter, last_valid_landmarks, frame_counter,
      current_blink_count, monitorVars, now, advances, historyVars, mon_event,
      notify_calls, deliveries, resets, window_blinks, monitor_counts,
      last_failure, provider_calls, tickVars, frameVars, hubVars, setupVars>>

\* a close() that counts the run that is open when the tracker is closed
Flush_close(d, fc, cfg) ==
    IF fc > 0 /\ fc >= cfg.CONSECUTIVE_FRAMES
    THEN [d EXCEPT !.blink_count = @ + 1]
    ELSE d

\* EyeTracker.close: self.face_mesh.close() and nothing else; d is the
\* snapshot, fc the run counter
close(d, fc, cfg) == d

\* send_session_data_to_backend with an auth token: the report carries
\* self.current_blink_count as total_blinks
send_session_data_to_backend(posts) == Append(posts, current_blink_count)

\* EyeTrackerWidget.closeEvent, after the reports of posts and the calls of
\* log: the report, then video_timer.stop(), stop_monitoring(),
\* video_capture.release() and eye_tracker.close(), in this order
EyeTrackerWidget_closeEvent(posts, log) ==
    /\ session_posts' = send_session_data_to_backend(posts)
    /\ video_timer' = "stopped"
    /\ face_mesh' = "closed"
    /\ data' = close(data, frame_counter, config)
    /\ teardown_log' = log \o <<"video_timer.stop", "system_monitor.stop_monitoring",
                                "video_capture.release", "eye_tracker.close">>

\* MainApplication.closeEvent (the X button): with a visible tray icon the
\* window hides and the event is ignored; without one the widget is torn
\* down, the window closes and, being the last window, ends the event loop
MainApplication_closeEvent ==
    /\ app = "running"
    /\ window = "visible"
    /\ IF tray_icon = "shown"
       THEN /\ window' = "hidden"
            /\ UNCHANGED <<data, video_timer, face_mesh, tray_icon, app,
                           teardown_log, session_posts>>
       ELSE /\ EyeTrackerWidget_closeEvent(session_posts, teardown_log)
            /\ window' = "hidden"
            /\ app' = "quit"
            /\ UNCHANGED tray_icon
    /\ UNCHANGED keptVars

\* show_window and hide_window of the tray menu
show_window ==
    /\ app = "running"
    /\ tray_icon = "shown"
    /\ window' = "visible"
    /\ UNCHANGED <<data, video_timer, face_mesh, tray_icon, app, teardown_log,
                   session_posts, keptVars>>

hide_window ==
    /\ app = "running"
    /\ tray_icon = "shown"
    /\ window' = "hidden"
    /\ UNCHANGED <<data, video_timer, face_mesh, tray_icon, app, teardown_log,
                   session_posts, keptVars>>

\* quit_application (Quit of the tray menu): the report, tray_icon.hide(),
\* QApplication.quit().  quit() sends a close event to the main window if
\* it is visible, which closeEvent now handles without a tray icon; a
\* hidden window gets no close event, and the event loop just ends.
quit_application ==
    /\ app = "running"
    /\ tray_icon = "shown"
    /\ tray_icon' = "hidden"
    /\ app' = "quit"
    /\ IF window = "visible"
       THEN /\ EyeTrackerWidget_closeEvent(
                  send_session_data_to_backend(session_posts), teardown_log)
            /\ window' = "hidden"
       ELSE /\ session_posts' = send_session_data_to_backend(session_posts)
            /\ UNCHANGED <<data, video_timer, face_mesh, window, teardown_log>>
    /\ UNCHANGED keptVars

HostResults == {NoDetection} \cup {Detection(e) : e \in PipelineSamples}

\* a timeout of video_timer: update_frame runs one tick
TickHost ==
    /\ app = "running"
    /\ video_timer = "active"
    /\ Len(samples) < MaxHostTicks
    /\ \E result \in HostResults : process_frame(result)
    /\ samples' = Append(samples, data'.avg_ear)
    /\ counts' = Append(counts, data'.blink_count)
    /\ UNCHANGED <<tickVars, last_failure, frameVars, hubVars, setupVars, hostVars>>

InitTeardown ==
    /\ config \in {[Configuration EXCEPT !.CONSECUTIVE_FRAMES = n] : n \in 1..2}
    /\ now = 0
    /\ advances = 0
    /\ InitTracker
    /\ InitManager
    /\ InitHistory
    /\ InitObservers
    /\ InitSetup
    /\ video_timer = "active"
    /\ face_mesh = "open"
    /\ window = "visible"
    /\ tray_icon \in {"absent", "shown"}
    /\ app = "running"
    /\ teardown_log = <<>>
    /\ session_posts = <<>>

NextTeardown ==
    \/ TickHost
    \/ MainApplication_closeEvent
    \/ show_window
    \/ hide_window
    \/ quit_application

SpecTeardown == InitTeardown /\ [][NextTeardown]_vars

----------------------------------------------------------------------------
(* Publish specification: ticks only; records what every tick met and     *)
(* what it published to the observers, in order                           *)

PublishResults ==
    {NoDetection, ProviderFailure} \cup {Detection(e) : e \in PipelineSamples}

\* what a tick met: it was skipped, the provider raised or found no face,
\* or the detected eyes were below the threshold or open
Classify(invoked, result, cfg) ==
    IF invoked = 0 THEN "skipped"
    ELSE IF result.kind # "detection" THEN result.kind
    ELSE IF FloatLess(AvgEar(_calculate_ear(result.left_eye),
                             _calculate_ear(result.right_eye)),
                      cfg.EAR_THRESHOLD)
         THEN "below" ELSE "open"

NoEvent ==
    [event |-> "none", count |-> 0, left_ear |-> 0, right_ear |-> 0,
     avg_ear |-> 0, to |-> {}, raised |-> FALSE]

\* observer.on_blink_detected(self.data.blink_count) for every observer
BlinkEvent(d, to, raised) ==
    [NoEvent EXCEPT !.event = "blink", !.count = d.blink_count, !.to = to,
                    !.raised = raised]

\* observer.on_eye_data_updated(left_ear, right_ear, avg_ear) for every
\* observer
EyeDataEvent(d, to) ==
    [NoEvent EXCEPT !.event = "eye_data", !.left_ear = d.left_ear,
                    !.right_ear = d.right_ear, !.avg_ear = d.avg_ear, !.to = to]

\* the eye-data update published inside the if should_process block, so
\* that a skipped tick publishes nothing
OnlyProcessed_TickEvents(blinked, raised, invoked, error, d, to) ==
    (IF blinked THEN <<BlinkEvent(d, to, raised)>> ELSE <<>>)
        \o (IF error = "none" /\ invoked = 1 THEN <<EyeDataEvent(d, to)>> ELSE <<>>)

\* the _notify_* calls of one tick, in order: _notify_blink_detected inside
\* _update_blink_detection (line 145), then _notify_eye_data_updated (line
\* 131) unless an exception left the try block before it; d is the
\* snapshot after the tick, to the observers
TickEvents(blinked, raised, invoked, error, d, to) ==
    (IF blinked THEN <<BlinkEvent(d, to, raised)>> ELSE <<>>)
        \o (IF error = "none" THEN <<EyeDataEvent(d, to)>> ELSE <<>>)

InitPublish ==
    /\ config \in {[Configuration EXCEPT !.MAX_FRAME_SKIP = n,
                                         !.NOTIFICATION_CHECK_INTERVAL = i] :
                      n \in {0, 2}, i \in {0, NOTIFICATION_CHECK_INTERVAL}}
    /\ now = 0
    /\ advances = 0
    /\ InitTracker
    /\ InitManager
    /\ InitHistory
    /\ InitObservers
    /\ InitSetup
    /\ InitHost

\* one tick; stdout_ok tells whether the print of on_blink_detected (line
\* 201), its last statement, succeeds.  The callback raises when the print
\* fails or the monitor raised; an exception that left the loop of
\* _notify_blink_detected would end the tick in the except clause of
\* process_frame.
TickPublish ==
    /\ Len(result_log) < MaxPublishTicks
    /\ \E result \in PublishResults, stdout_ok \in BOOLEAN :
          /\ process_frame(result)
          /\ LET blinked == Len(monitor_counts') = Len(monitor_counts) + 1
                 raised == blinked /\ (~stdout_ok \/ mon_event' = "raised")
                 error == IF observer_error_escapes(raised) THEN "ObserverError"
                          ELSE frame_error(frame_skip_counter + 1, result, config)
             IN /\ published' = TickEvents(blinked, raised, provider_calls', error,
                                          data', observers)
                /\ frame_exit' = IF except_Exception(error) = "none"
                                 THEN "returned" ELSE "raised"
                /\ result_log' = Append(result_log,
                                        Classify(provider_calls', result, config))
    /\ UNCHANGED <<historyVars, tickVars, last_failure, prev_result, last_detected,
                   eye_updates, hubVars, setupVars, hostVars>>

NextPublish == TickPublish

SpecPublish == InitPublish /\ [][NextPublish]_vars

----------------------------------------------------------------------------
(* Detector specification: every tick is a processed frame with a fresh   *)
(* detection, under each drawn EAR_THRESHOLD and CONSECUTIVE_FRAMES       *)

InitDetector ==
    /\ config \in {[Configuration EXCEPT !.EAR_THRESHOLD = t, !.CONSECUTIVE_FRAMES = n] :
                      t \in ThresholdChoices, n \in 0..MaxCF}
    /\ now = 0
    /\ advances = 0
    /\ InitTracker
    /\ InitManager
    /\ InitHistory
    /\ InitObservers
    /\ InitSetup
    /\ InitHost

FeedSample ==
    /\ Len(samples) < MaxSamples
    /\ \E e \in EarSamples : process_frame(Detection(e))
    /\ samples' = Append(samples, data'.avg_ear)
    /\ counts' = Append(counts, data'.blink_count)
    /\ UNCHANGED <<tickVars, last_failure, frameVars, hubVars, setupVars, hostVars>>

NextDetector == FeedSample

SpecDetector == InitDetector /\ [][NextDetector]_vars

----------------------------------------------------------------------------
(* Blink Detector properties, over the recorded sample history *)

Below(e) == e < config.EAR_THRESHOLD

\* length of the run of below-threshold samples that ends right before seq[j]
RunBefore(seq, j) ==
    CHOOSE k \in 0..(j - 1) :
        /\ \A m \in (j - k)..(j - 1) : Below(seq[m])
        /\ (k = j - 1 \/ ~Below(seq[j - k - 1]))

\* maximal runs of consecutive below-threshold samples (a run has at least
\* one sample) of length >= n that an at-or-above-threshold sample ends,
\* each named by the sample that ends it
QualifyingRuns(seq, n) ==
    {j \in 1..Len(seq) :
        /\ ~Below(seq[j])
        /\ RunBefore(seq, j) >= 1
        /\ RunBefore(seq, j) >= n}

\* C1: for every sample sequence and every allowed configuration
\* (CONSECUTIVE_FRAMES >= 0 included), blink_count equals the number of
\* maximal below-threshold runs of length >= CONSECUTIVE_FRAMES that an
\* at-or-above-threshold sample terminates.
C1_BlinkCountIsQualifyingRuns ==
    data.blink_count = Cardinality(QualifyingRuns(samples, config.CONSECUTIVE_FRAMES))

\* The same count once the debounce length is at least one frame.
BlinkCountIsQualifyingRunsWhenDebounced ==
    config.CONSECUTIVE_FRAMES >= 1 => C1_BlinkCountIsQualifyingRuns

CountAfter(i) == IF i = 0 THEN 0 ELSE counts[i]
OpenAfter(i) == i = 0 \/ ~Below(samples[i])

ExampleSamples == <<25, 15, 10, 30, 5, 30>>

\* C2: with CONSECUTIVE_FRAMES = N >= 1 and the detector OPEN, a run of
\* exactly N below-threshold samples closed by an at-or-above-threshold
\* sample adds exactly one blink and a run of exactly N-1 adds none; with
\* threshold 0.21 and N = 2 the samples 0.25 0.15 0.10 0.30 0.05 0.30 give
\* exactly one blink.
C2_ExactRunBoundary ==
    /\ config.CONSECUTIVE_FRAMES >= 1 =>
         \A i \in 0..Len(samples), j \in 1..Len(samples) :
            ( /\ i < j
              /\ OpenAfter(i)
              /\ ~Below(samples[j])
              /\ \A m \in (i + 1)..(j - 1) : Below(samples[m]) )
            => /\ (j - i - 1 = config.CONSECUTIVE_FRAMES
                      => counts[j] = CountAfter(i) + 1)
               /\ (j - i - 1 = config.CONSECUTIVE_FRAMES - 1
                      => counts[j] = CountAfter(i))
    /\ ( /\ config.EAR_THRESHOLD = 21
         /\ config.CONSECUTIVE_FRAMES = 2
         /\ samples = ExampleSamples )
       => data.blink_count = 1

C2_Witness ==
    /\ config.EAR_THRESHOLD = 21
    /\ config.CONSECUTIVE_FRAMES = 2
    /\ samples = ExampleSamples
    /\ counts = <<0, 0, 0, 1, 1, 1>>

----------------------------------------------------------------------------
(* Blink-Rate Monitor properties.  A step in which the monitor was called  *)
(* is one that ends with mon_event' naming the path the call took; the     *)
(* unprimed variables are the state the call started from.                 *)

Calls == {"early", "no_breach", "suppressed", "delivered", "failed"}
Attempts == {"suppressed", "delivered", "failed"}

\* the cooldown (5 minutes) and the check interval, in seconds
CooldownSeconds == 300
CheckIntervalSeconds == config.NOTIFICATION_CHECK_INTERVAL \div 1000

MonitorCalled == mon_event' \in Calls
TimeElapsed == now - last_check_time
WindowElapsed == TimeElapsed >= CheckIntervalSeconds
WindowEvaluation == MonitorCalled /\ WindowElapsed
\* the rate of the window, were it closed with count, is below the threshold
RateBreach(count) ==
    (count - last_blink_count) * 60 < config.MIN_BLINKS_PER_MINUTE * TimeElapsed

LastDelivery == deliveries[Len(deliveries)]

\* C4: with no reset_tracking in between, two alerts the sink accepted are
\* at least the cooldown (5 minutes) apart.
C4_DeliveriesCooldownApart ==
    ( /\ Len(deliveries) = 2
      /\ deliveries[1].epoch = deliveries[2].epoch )
    => deliveries[2].time - deliveries[1].time >= CooldownSeconds

C4_Witness ==
    /\ Len(deliveries) = 2
    /\ deliveries[1].epoch = deliveries[2].epoch
    /\ deliveries[2].time - deliveries[1].time = CooldownSeconds
    /\ mon_event = "delivered"

\* C5: a window evaluation whose rate is below the threshold, made when no
\* alert was ever delivered or the last delivered one is at least the
\* cooldown old, calls the sink exactly once; a call made while the last
\* alert of this session is younger than the cooldown calls it not at all.
\* (60 s interval, 15/min, baseline 0: count 5 at 60 s alerts once, a call
\* 30 s later does not, a breach after the cooldown does.)
C5_BreachAlertsOnce ==
    [][ MonitorCalled =>
          /\ ( /\ WindowElapsed
               /\ RateBreach(current_blink_count')
               /\ (deliveries = <<>> \/ now - LastDelivery.time >= CooldownSeconds) )
             => /\ notify_calls' = 1
                /\ mon_event' \in {"delivered", "failed"}
                /\ mon_event' = "delivered" => last_notification_time' = Some(now')
          /\ ( /\ deliveries # <<>>
               /\ LastDelivery.epoch = resets
               /\ now' - LastDelivery.time < CooldownSeconds )
             => /\ notify_calls' = 0
                /\ deliveries' = deliveries ]_vars

\* count 5 at 60 s under the default configuration was delivered, and the
\* call 30 s later, at 90 s, raised nothing
C5_Witness ==
    /\ config = Configuration
    /\ resets = 0
    /\ deliveries = <<[time |-> 60, epoch |-> 0]>>
    /\ last_blink_count = 5
    /\ last_check_time = 60
    /\ now = 90
    /\ mon_event = "early"
    /\ notify_calls = 0

\* C6: at a window evaluation the monitor attempts an alert iff
\* (current_count - blink_count_at_window_start) * 60 <
\* MIN_BLINKS_PER_MINUTE * elapsed_seconds; a rate equal to the threshold
\* attempts none.
C6_AttemptIffRateStrictlyBelow ==
    [][ WindowEvaluation =>
          ( mon_event' \in Attempts
            <=> (current_blink_count' - last_blink_count) * 60
                   < config.MIN_BLINKS_PER_MINUTE * (now - last_check_time) ) ]_vars

\* the first window, 60 s long, closed with 2 blinks at 2/min: no attempt
C6_Witness ==
    /\ config.MIN_BLINKS_PER_MINUTE = 2
    /\ resets = 0
    /\ now = 60
    /\ last_check_time = 60
    /\ current_blink_count = 2
    /\ last_blink_count = 2
    /\ mon_event = "no_breach"

\* C7: a call made before the check interval has elapsed raises no alert
\* and leaves the window start, the baseline count and the last alert time
\* unchanged.
C7_EarlyCallChangesNothing ==
    [][ (MonitorCalled /\ ~WindowElapsed) =>
          /\ UNCHANGED <<last_check_time, last_blink_count, last_notification_time>>
          /\ notify_calls' = 0
          /\ deliveries' = deliveries ]_vars

C7_Witness ==
    /\ mon_event = "early"
    /\ now - last_check_time = 30
    /\ current_blink_count > last_blink_count

\* C8: after every window evaluation (delivered, suppressed, failed or not
\* attempted) the baseline count is the current count and the window start
\* is the evaluation time.
C8_EvaluationRestartsWindow ==
    [][ WindowEvaluation =>
          /\ last_blink_count' = current_blink_count'
          /\ last_blink_count' = data'.blink_count
          /\ last_check_time' = now ]_vars

\* an evaluation the cooldown suppressed, read one second before the
\* second clock read
C8_Witness ==
    /\ mon_event = "suppressed"
    /\ last_blink_count = data.blink_count
    /\ last_check_time = now - 1

\* C9: reset_tracking clears last_notification_time, and the first breach
\* evaluated after it reaches the sink whatever was delivered before it.
C9_ResetClearsCooldown ==
    [][ /\ mon_event' = "reset" => last_notification_time' = None
        /\ ( /\ WindowEvaluation
             /\ RateBreach(current_blink_count')
             /\ resets > 0
             /\ (deliveries = <<>> \/ LastDelivery.epoch < resets) )
           => /\ notify_calls' = 1
              /\ mon_event' \in {"delivered", "failed"} ]_vars

\* an alert delivered after the reset, less than the cooldown after the
\* one delivered before it
C9_Witness ==
    /\ Len(deliveries) = 2
    /\ deliveries[1].epoch < deliveries[2].epoch
    /\ deliveries[2].time - deliveries[1].time < CooldownSeconds
    /\ mon_event = "delivered"

\* C10: the blink delta a window evaluation uses is the number of blinks
\* counted since the window was started, by an evaluation or by
\* reset_tracking (the blink that triggers the evaluation included).
C10_DeltaCountsWindowBlinksOnly ==
    [][ WindowEvaluation =>
          current_blink_count' - last_blink_count = window_blinks + 1 ]_vars

\* A window that, were it evaluated now, would breach with no alert
\* delivered within the preceding cooldown.
BreachPending ==
    /\ WindowElapsed
    /\ RateBreach(data.blink_count)
    /\ (deliveries = <<>> \/ now - LastDelivery.time >= CooldownSeconds)

\* C3: while ticks keep arriving, a blink rate below MIN_BLINKS_PER_MINUTE
\* over an elapsed check interval, with no alert delivered within the
\* preceding cooldown, leads to a call of the Alert Sink, also when the
\* user does not blink at all.
C3_BreachLeadsToAlert == BreachPending ~> (notify_calls = 1)

\* C11: in every reachable state of tracker and monitor together, whatever
\* the interleaving of ticks, monitor calls and reset_tracking, the blink
\* count the monitor holds as the start of its window is at most the
\* tracker's blink count.
C11_WindowStartAtMostBlinkCount ==
    /\ last_blink_count <= data.blink_count
    /\ last_blink_count >= 0

\* after reset_tracking: a window restarted by an evaluation, then more blinks
C11_Witness ==
    /\ last_blink_count > 0
    /\ last_blink_count < data.blink_count
    /\ resets = 1

\* a monitor call in which notification.notify was called and did not accept
\* the alert
SinkFailure == notify_calls' >= 1 /\ mon_event' # "delivered"

\* C12: a failure of the Alert Sink's notify call does not leave the
\* monitor: the monitor call returns normally, the window is restarted on
\* the count and the time of the call, and the tick that published the
\* blink ends as it does otherwise, with the blink counted and the run
\* counter cleared.
C12_SinkFailureIsContained ==
    [][ SinkFailure =>
          /\ mon_event' = "failed"
          /\ last_blink_count' = current_blink_count'
          /\ last_check_time' = now
          /\ data'.blink_count = data.blink_count + 1
          /\ current_blink_count' = data'.blink_count
          /\ frame_counter' = 0
          /\ frame_skip_counter' = 0 ]_vars

\* a monitor call whose notify call failed, and the window it restarted
C12_Witness ==
    /\ mon_event = "failed"
    /\ notify_calls = 1
    /\ last_blink_count = data.blink_count
    /\ last_check_time > 0

\* the latest call of the Alert Sink failed: none was accepted since
FailedLast ==
    /\ last_failure # None
    /\ (deliveries = <<>> \/ LastDelivery.time < Get(last_failure))

\* C13: a monitor call calls the Alert Sink at most once; a failed call
\* leaves last_notification_time as it was; and a breaching window
\* evaluation that follows a failed call calls the sink again, unless an
\* alert the sink accepted is less than the cooldown old: the failed call
\* starts no cooldown.
C13_FailedAlertIsRetriedNextWindow ==
    [][ MonitorCalled =>
          /\ notify_calls' <= 1
          /\ (SinkFailure => last_notification_time' = last_notification_time)
          /\ ( ( /\ WindowElapsed
                 /\ RateBreach(current_blink_count')
                 /\ FailedLast
                 /\ (deliveries = <<>> \/ now - LastDelivery.time >= CooldownSeconds) )
               => notify_calls' = 1 ) ]_vars

\* an alert the sink accepted less than the cooldown after a failed call
C13_Witness ==
    /\ mon_event = "delivered"
    /\ notify_calls = 1
    /\ last_failure # None
    /\ LastDelivery.time > Get(last_failure)
    /\ LastDelivery.time - Get(last_failure) < CooldownSeconds

----------------------------------------------------------------------------
(* Frame Scheduler and Landmark Cache properties, over the tick history *)

\* the step is a tick
IsTick == Len(invoked_log') = Len(invoked_log) + 1
Skipped(i) == invoked_log[i] = 0

\* C14: blink_count is never negative, never decreases, and grows by at most
\* 1 in a tick, whether the tick is processed, skipped, without detection
\* or failing.
C14_BlinkCountMonotoneByOne ==
    [][ /\ data.blink_count >= 0
        /\ data'.blink_count >= data.blink_count
        /\ data'.blink_count <= data.blink_count + 1 ]_vars

\* a blink counted in a history with skipped ticks, a cached detection and
\* a failing tick
C14_Witness ==
    /\ data.blink_count >= 1
    /\ \E i \in 1..Len(invoked_log) : Skipped(i)
    /\ last_result = Some(ProviderFailure)
    /\ last_valid_landmarks # None

----------------------------------------------------------------------------
(* Blink events, as the monitor receives them *)

\* C15: the counts passed to the monitor are 1, 2, ..., n, in that order:
\* every increment of blink_count makes, within its tick, exactly one
\* monitor call, which carries the new count, and no call carries a count
\* lower than one passed before.
C15_MonitorSeesEveryCountInOrder ==
    /\ Len(monitor_counts) = data.blink_count
    /\ \A i \in 1..Len(monitor_counts) : monitor_counts[i] = i

\* three blinks published, the monitor having evaluated a window in between
C15_Witness ==
    /\ Len(monitor_counts) >= 3
    /\ last_blink_count >= 1
    /\ mon_event \in Calls

\* number of ticks a..b that invoked the Landmark Provider
InvokingTicks(a, b) == Cardinality({k \in a..b : invoked_log[k] >= 1})

\* C16: with MAX_FRAME_SKIP = N >= 1, of any N consecutive ticks exactly
\* one invokes the Landmark Provider, and no tick invokes it twice.
C16_OneInvocationPerWindow ==
    LET N == config.MAX_FRAME_SKIP IN
    N >= 1 =>
      /\ \A k \in 1..Len(invoked_log) : invoked_log[k] <= 1
      /\ \A a \in 1..(Len(invoked_log) - N + 1) : InvokingTicks(a, a + N - 1) = 1

\* MAX_FRAME_SKIP = 3 and three full periods of ticks
C16_Witness ==
    /\ config.MAX_FRAME_SKIP = 3
    /\ Len(invoked_log) >= 9
    /\ InvokingTicks(1, 9) = 3

\* C17: with MAX_FRAME_SKIP = 0 every tick invokes the Landmark Provider.
C17_ZeroSkipProcessesEveryTick ==
    config.MAX_FRAME_SKIP = 0 =>
      \A k \in 1..Len(invoked_log) : invoked_log[k] = 1

\* MAX_FRAME_SKIP = 0 and a run of ticks that ends on a detection
C17_Witness ==
    /\ config.MAX_FRAME_SKIP = 0
    /\ Len(invoked_log) >= 3
    /\ InvokingTicks(1, Len(invoked_log)) = Len(invoked_log)
    /\ last_result = Some(Detection(30))

\* the tick of this step finds the skip counter, once incremented, still
\* short of MAX_FRAME_SKIP
SkippedTick == IsTick /\ frame_skip_counter + 1 < config.MAX_FRAME_SKIP

\* C18: a skipped tick does not invoke the Landmark Provider, leaves
\* left_ear, right_ear, avg_ear, blink_count, the snapshot's landmarks, the
\* run counter and the Landmark Cache as they were, and publishes no blink.
C18_SkippedTickChangesNothing ==
    [][ SkippedTick =>
          /\ provider_calls' = 0
          /\ data' = data
          /\ frame_counter' = frame_counter
          /\ last_valid_landmarks' = last_valid_landmarks
          /\ monitor_counts' = monitor_counts
          /\ mon_event' = "none" ]_vars

\* a skipped tick inside a run of closed-eye frames, the cache filled
C18_Witness ==
    /\ Len(invoked_log) >= 2
    /\ Skipped(Len(invoked_log))
    /\ provider_calls = 0
    /\ frame_counter >= 1
    /\ last_valid_landmarks # None

\* the tick of this step invokes the Landmark Provider, which finds no face
NoDetectionTick == IsTick /\ last_result' = Some(NoDetection)

\* C19: on a processed tick without detection and with a filled Landmark
\* Cache, the snapshot's landmarks are the cached pair afterwards, while
\* blink_count, the run counter, left_ear, right_ear, avg_ear and the cache
\* are unchanged and no blink is published.
C19_NoDetectionReusesCache ==
    [][ (NoDetectionTick /\ last_valid_landmarks # None) =>
          /\ data'.left_eye_landmarks = Some(Get(last_valid_landmarks)[1])
          /\ data'.right_eye_landmarks = Some(Get(last_valid_landmarks)[2])
          /\ data'.blink_count = data.blink_count
          /\ data'.left_ear = data.left_ear
          /\ data'.right_ear = data.right_ear
          /\ data'.avg_ear = data.avg_ear
          /\ frame_counter' = frame_counter
          /\ last_valid_landmarks' = last_valid_landmarks
          /\ monitor_counts' = monitor_counts
          /\ mon_event' = "none" ]_vars

\* a tick without detection inside a run of closed-eye frames: the snapshot
\* shows the cached pair and keeps the closed-eye EAR
C19_Witness ==
    /\ last_result = Some(NoDetection)
    /\ last_valid_landmarks # None
    /\ data.left_eye_landmarks = Some(Get(last_valid_landmarks)[1])
    /\ data.right_eye_landmarks = Some(Get(last_valid_landmarks)[2])
    /\ frame_counter >= 1
    /\ data.avg_ear = 15

\* C20: on a processed tick without detection and with an empty Landmark
\* Cache, the snapshot's landmarks stay absent, the cache stays empty, and
\* blink_count and the run counter are unchanged.
C20_NoDetectionEmptyCache ==
    [][ (NoDetectionTick /\ last_valid_landmarks = None) =>
          /\ data.left_eye_landmarks = None
          /\ data.right_eye_landmarks = None
          /\ data'.left_eye_landmarks = None
          /\ data'.right_eye_landmarks = None
          /\ last_valid_landmarks' = None
          /\ data'.blink_count = data.blink_count
          /\ frame_counter' = frame_counter ]_vars

\* ticks without detection before any detection succeeded
C20_Witness ==
    /\ last_result = Some(NoDetection)
    /\ Len(invoked_log) >= 2
    /\ last_valid_landmarks = None
    /\ data.left_eye_landmarks = None
    /\ data.right_eye_landmarks = None

----------------------------------------------------------------------------
(* Landmark Cache and per-frame errors, over the frame history *)

\* C21: the Landmark Cache is empty or holds the eye pair of the most
\* recent detection: only a detection writes it, and no skipped tick, tick
\* without detection or failing tick clears it or writes a replayed pair.
C21_CacheHoldsLatestDetection ==
    last_valid_landmarks = last_detected

\* a filled cache after a tick on which the provider raised and a tick
\* without detection that replayed the cache
C21_Witness ==
    /\ last_valid_landmarks # None
    /\ prev_result = Some(ProviderFailure)
    /\ last_result = Some(NoDetection)
    /\ data.left_eye_landmarks = Some(Get(last_valid_landmarks)[1])

\* the tick of this step is processed on a detection in which an eye has
\* zero width (p0 = p3)
DegenerateTick ==
    /\ IsTick
    /\ last_result' # None
    /\ Get(last_result').kind = "detection"
    /\ ( \/ Get(last_result').left_eye.horizontal = 0
         \/ Get(last_result').right_eye.horizontal = 0 )

\* C22: a processed tick whose detection has an eye of zero width is
\* skipped for blink purposes: blink_count and the run counter are
\* unchanged, no blink is published, and no infinite or undefined EAR is
\* stored in the snapshot.
C22_DegenerateFrameSkipped ==
    [][ DegenerateTick =>
          /\ data'.blink_count = data.blink_count
          /\ frame_counter' = frame_counter
          /\ monitor_counts' = monitor_counts
          /\ {data'.left_ear, data'.right_ear, data'.avg_ear}
                 \cap {Infinity, NaN} = {} ]_vars

\* the tick of this step raises inside process_frame: the provider raises,
\* or an extracted eye has fewer than 6 points
FailingTick ==
    /\ IsTick
    /\ last_result' # None
    /\ \/ Get(last_result').kind = "raise"
       \/ /\ Get(last_result').kind = "detection"
          /\ \/ Len(config.LEFT_EYE_INDICES) < 6
             \/ Len(config.RIGHT_EYE_INDICES) < 6

\* C23: process_frame lets no error reach the tick loop: on every frame it
\* returns, also when the provider raises or an eye has fewer than 6
\* points, and the tick after a failing one is scheduled as any other.
C23_FrameErrorsAreContained ==
    [][ /\ IsTick => frame_exit' = "returned"
        /\ FailingTick => frame_skip_counter' = 0 ]_vars

\* a detection processed right after a tick on which the provider raised
C23_Witness ==
    /\ frame_exit = "returned"
    /\ prev_result = Some(ProviderFailure)
    /\ last_result = Some(Detection(15))
    /\ data.avg_ear = 15
    /\ frame_counter >= 1

\* C24: a processed tick that fails with a per-frame error leaves the
\* snapshot (landmarks, left_ear, right_ear, avg_ear, blink_count), the
\* Landmark Cache and the run counter as they were before the tick.
C24_FailingTickKeepsSnapshot ==
    [][ FailingTick =>
          /\ data' = data
          /\ last_valid_landmarks' = last_valid_landmarks
          /\ frame_counter' = frame_counter ]_vars

\* the snapshot a tick without detection leaves: the cached pair shown
AfterNoDetection ==
    IF last_valid_landmarks # None
    THEN [data EXCEPT !.left_eye_landmarks = Some(Get(last_valid_landmarks)[1]),
                      !.right_eye_landmarks = Some(Get(last_valid_landmarks)[2])]
    ELSE data

\* C25: a tick on which the Landmark Provider raises ends as a tick without
\* detection from the same state does: the cached landmarks shown in the
\* snapshot, blink state and cache unchanged, the skip counter reset, no
\* blink published and the eye-data update published.
C25_ProviderFailureAsNoDetection ==
    [][ (IsTick /\ last_result' = Some(ProviderFailure)) =>
          /\ data' = AfterNoDetection
          /\ frame_counter' = frame_counter
          /\ last_valid_landmarks' = last_valid_landmarks
          /\ frame_skip_counter' = 0
          /\ monitor_counts' = monitor_counts
          /\ eye_updates' = 1 ]_vars

\* this step is one publish of the Observer Hub
Publishes == delivery'.serial = delivery.serial + 1

\* some callback of the publish of this step raises
SomeCallbackRaises ==
    \E o \in observers : delivery'.callbacks[o].raises

\* C26: when a subscriber's callback raises during a publish of either
\* event, every subscriber of the set at publish time still receives the
\* event exactly once and no error reaches the publisher.
C26_RaisingSubscriberIsContained ==
    [][ (Publishes /\ SomeCallbackRaises) =>
          /\ delivery'.event \in {"blink", "eye_data"}
          /\ ~delivery'.propagated
          /\ \A o \in observers : delivery'.received[o] = 1 ]_vars

\* a blink delivered to two subscribers: the first called raised, the
\* second did not and received the blink once
C26_Witness ==
    /\ delivery.event = "blink"
    /\ Len(delivery.order) = 2
    /\ delivery.callbacks[delivery.order[1]].raises
    /\ ~delivery.callbacks[delivery.order[2]].raises
    /\ delivery.received[delivery.order[2]] = 1
    /\ ~delivery.propagated

\* the observer set after a publish in which the callback of observer
\* editor.by was run with its add or remove
AfterEdit(obs, callbacks) ==
    LET adds == {callbacks[o].target : o \in {x \in obs : callbacks[x].op = "add"}}
        removes == {callbacks[o].target : o \in {x \in obs : callbacks[x].op = "remove"}}
    IN (obs \cup adds) \ removes

\* C27: the subscribers that receive a published event are exactly those
\* subscribed at publish time, each once, whatever a callback adds to or
\* removes from the set meanwhile; the publish does not fail, and the
\* change is in the set when the publish has returned.
C27_DeliveryUsesPublishTimeSet ==
    [][ Publishes =>
          /\ delivery'.snapshot = observers
          /\ \A o \in Observers :
                delivery'.received[o] = IF o \in observers THEN 1 ELSE 0
          /\ ~delivery'.propagated
          /\ observers' = AfterEdit(observers, delivery'.callbacks) ]_vars

\* the first subscriber called removed the second, which still received the
\* event once and is no longer subscribed after the publish
C27_Witness ==
    /\ Len(delivery.order) = 2
    /\ delivery.callbacks[delivery.order[1]].op = "remove"
    /\ delivery.callbacks[delivery.order[1]].target = delivery.order[2]
    /\ delivery.received[delivery.order[2]] = 1
    /\ delivery.order[2] \notin observers
    /\ ~delivery.propagated

\* C28: a publish delivers nothing to an observer that is not subscribed
\* or that has become unreachable, and does not fail; unsubscribing an
\* observer that is not subscribed changes nothing.
C28_NoDeliveryToGoneObserver ==
    [][ /\ Publishes =>
            /\ \A o \in Observers :
                  (o \notin observers \/ o \notin reachable)
                      => delivery'.received[o] = 0
            /\ ~delivery'.propagated
        /\ \A o \in Observers \ observers :
              remove_observer(observers, o) = observers ]_vars

\* x, in hundredths, is a fraction of [0, 1]
UnitFraction(x) == 0 <= x /\ x <= 100

\* the tracker has been built on the configuration, or has run ticks on it
TrackerRuns == construction = "ok" \/ samples # <<>>

\* C29: a Configuration requested with EAR_THRESHOLD outside [0, 1] is
\* rejected with an error when it is constructed, and no tracker runs with
\* an EAR_THRESHOLD outside [0, 1].
C29_EarThresholdValidated ==
    /\ ~UnitFraction(requested.EAR_THRESHOLD)
          => construction \in {"pending", "ValueError"} /\ samples = <<>>
    /\ TrackerRuns => UnitFraction(config.EAR_THRESHOLD)

\* the construction with EAR_THRESHOLD = 1.01 has raised
C29_Witness ==
    /\ requested.EAR_THRESHOLD = 101
    /\ construction = "ValueError"
    /\ samples = <<>>

\* the values of cfg the tracker and the monitor may run with
ValidSettings(cfg) ==
    /\ cfg.CONSECUTIVE_FRAMES >= 0
    /\ cfg.MAX_FRAME_SKIP >= 0
    /\ cfg.MIN_BLINKS_PER_MINUTE >= 0
    /\ cfg.NOTIFICATION_CHECK_INTERVAL > 0
    /\ CooldownSeconds > 0
    /\ Len(cfg.LEFT_EYE_INDICES) = 6
    /\ Len(cfg.RIGHT_EYE_INDICES) = 6

\* C30: a Configuration requested with a negative CONSECUTIVE_FRAMES,
\* MAX_FRAME_SKIP or MIN_BLINKS_PER_MINUTE, a NOTIFICATION_CHECK_INTERVAL or
\* cooldown that is not positive, or an eye index list that has not 6
\* indices is rejected with a ConfigurationError when it is constructed,
\* and no tracker or monitor runs with such a value.
C30_SettingsValidated ==
    /\ (~ValidSettings(requested) /\ construction # "pending")
          => construction = "ConfigurationError"
    /\ TrackerRuns => ValidSettings(config)

\* position of the first call named call in log, 0 if there is none
FirstCall(log, call) ==
    IF \E i \in DOMAIN log : log[i] = call
    THEN CHOOSE i \in DOMAIN log :
            log[i] = call /\ \A j \in 1..(i - 1) : log[j] # call
    ELSE 0

\* this step is a teardown path that returns: the event loop ends
TeardownReturns == app = "running" /\ app' = "quit"

\* this step is a tick of the timer
HostTick == Len(samples') = Len(samples) + 1

\* C31: when a teardown path (closing the main window without a tray icon,
\* Quit of the tray menu) returns, the tick timer has been stopped, the
\* Landmark Provider has been released, after the timer was stopped, and no
\* tick runs once the provider is released.
C31_TeardownReleasesProvider ==
    [][ /\ TeardownReturns =>
            /\ video_timer' = "stopped"
            /\ face_mesh' = "closed"
            /\ FirstCall(teardown_log', "video_timer.stop") >= 1
            /\ FirstCall(teardown_log', "video_timer.stop")
                  < FirstCall(teardown_log', "eye_tracker.close")
        /\ HostTick => face_mesh = "open" /\ face_mesh' = "open" ]_vars

\* the blink events published so far
BlinkEvents == Len(monitor_counts)

\* C32: after every step the widget's current_blink_count equals the
\* tracker's blink_count, it changes only to that value, and every session
\* report carries as total_blinks the number of blink events of the session.
C32_SessionTotalIsBlinkCount ==
    [][ /\ current_blink_count' = data'.blink_count
        /\ \A i \in DOMAIN session_posts' :
              /\ session_posts'[i] = data'.blink_count
              /\ session_posts'[i] = Len(monitor_counts') ]_vars

\* a session with one blink was reported when the main window was closed
C32_Witness ==
    /\ app = "quit"
    /\ session_posts = <<1>>
    /\ BlinkEvents = 1
    /\ data.blink_count = 1

\* the sample fed to the detector in this step
FedSample == samples'[Len(samples')]

\* this step feeds one fresh avg_ear sample to the detector
FeedsSample == Len(samples') = Len(samples) + 1

\* C33: on every fresh sample the detector takes one transition: below the
\* threshold the run counter grows by 1, blink_count stays and no blink is
\* published; otherwise the counter becomes 0, and blink_count grows by 1
\* with one blink event carrying the new count exactly when the counter was
\* at least CONSECUTIVE_FRAMES.  The counter is never negative.
C33_OneTransitionPerSample ==
    [][ FeedsSample =>
          /\ frame_counter' >= 0
          /\ IF FedSample < config.EAR_THRESHOLD
             THEN /\ frame_counter' = frame_counter + 1
                  /\ data'.blink_count = data.blink_count
                  /\ monitor_counts' = monitor_counts
             ELSE /\ frame_counter' = 0
                  /\ IF frame_counter >= config.CONSECUTIVE_FRAMES
                     THEN /\ data'.blink_count = data.blink_count + 1
                          /\ monitor_counts' =
                                Append(monitor_counts, data.blink_count + 1)
                     ELSE /\ data'.blink_count = data.blink_count
                          /\ monitor_counts' = monitor_counts ]_vars

\* a run of three samples below a threshold of 0.21 with CONSECUTIVE_FRAMES
\* = 2, closed by a sample above it: one blink, published with count 1
C33_Witness ==
    /\ config.EAR_THRESHOLD = 21
    /\ config.CONSECUTIVE_FRAMES = 2
    /\ samples = <<15, 10, 5, 25>>
    /\ counts = <<0, 0, 0, 1>>
    /\ frame_counter = 0
    /\ monitor_counts = <<1>>

\* the detector is inside a run of below-threshold samples
Closing == frame_counter > 0

\* C34: a below-threshold run that is still open when the input ends is
\* not counted: a step that is not a tick, close() included, taken while
\* the detector is closing changes neither blink_count nor the published
\* blink events, and leaves the run counter as it is.
C34_OpenRunIsNeverFlushed ==
    [][ (Closing /\ ~HostTick) =>
          /\ data'.blink_count = data.blink_count
          /\ monitor_counts' = monitor_counts
          /\ current_blink_count' = current_blink_count
          /\ frame_counter' = frame_counter ]_vars

\* the tracker was closed during a run of three below-threshold samples,
\* longer than CONSECUTIVE_FRAMES: no blink was counted or published
C34_Witness ==
    /\ face_mesh = "closed"
    /\ samples = <<15, 15, 15>>
    /\ frame_counter = 3
    /\ frame_counter > config.CONSECUTIVE_FRAMES
    /\ data.blink_count = 0
    /\ monitor_counts = <<>>

\* the larger of MAX_FRAME_SKIP and 1
SkipCeiling == IF config.MAX_FRAME_SKIP > 1 THEN config.MAX_FRAME_SKIP ELSE 1

\* C35: after every tick the skip counter is at least 0 and below
\* max(MAX_FRAME_SKIP, 1); a tick that invokes the provider leaves it at 0,
\* also when the provider fails, and every other tick adds 1 to it.
C35_SkipCounterRange ==
    [][ IsTick =>
          /\ 0 <= frame_skip_counter'
          /\ frame_skip_counter' < SkipCeiling
          /\ frame_skip_counter' =
                IF invoked_log'[Len(invoked_log')] = 1
                THEN 0 ELSE frame_skip_counter + 1 ]_vars

\* with MAX_FRAME_SKIP = 3: two skipped ticks, then a tick on which the
\* provider was invoked and raised; the counter is 0 after it
C35_Witness ==
    /\ config.MAX_FRAME_SKIP = 3
    /\ invoked_log = <<0, 0, 1>>
    /\ last_result = Some(ProviderFailure)
    /\ frame_skip_counter = 0

\* this step is a tick of the publish run
PublishTick == Len(result_log') = Len(result_log) + 1

\* what the tick of this step met
Met == result_log'[Len(result_log')]

\* the last n entries of log
LastEntries(log, n) == SubSeq(log, Len(log) - n + 1, Len(log))

\* C36: a skipped tick and a tick without detection leave the run counter
\* and blink_count as they are, so below-threshold samples on both sides of
\* such a gap form one run: with CONSECUTIVE_FRAMES = 2 the ticks below,
\* no detection, below, at-or-above end with a blink.
C36_RunSpansGaps ==
    [][ PublishTick =>
          /\ Met \in {"skipped", "none"} =>
                /\ frame_counter' = frame_counter
                /\ data'.blink_count = data.blink_count
          /\ ( /\ config.CONSECUTIVE_FRAMES = 2
               /\ Len(result_log') >= 4
               /\ LastEntries(result_log', 4) = <<"below", "none", "below", "open">> )
             => /\ data'.blink_count = data.blink_count + 1
                /\ frame_counter' = 0
                /\ published'[1].event = "blink" ]_vars

\* exactly the four ticks below, no detection, below, open: one blink
C36_Witness ==
    /\ config.CONSECUTIVE_FRAMES = 2
    /\ result_log = <<"below", "none", "below", "open">>
    /\ data.blink_count = 1
    /\ monitor_counts = <<1>>
    /\ frame_counter = 0

\* positions in events of the events named event
EventsOf(events, event) == {i \in DOMAIN events : events[i].event = event}

\* C37: a tick that ends without a per-frame error publishes exactly one
\* eye-data update, to every observer subscribed, carrying the EAR values
\* of the snapshot, which on a skipped tick and on a tick without detection
\* are those computed before; a blink of the tick is published before the
\* eye-data update.
C37_EyeDataEveryTick ==
    [][ (PublishTick /\ Met # "raise") =>
          /\ Cardinality(EventsOf(published', "eye_data")) = 1
          /\ \A i \in EventsOf(published', "eye_data") :
                /\ published'[i].to = observers
                /\ published'[i].left_ear = data'.left_ear
                /\ published'[i].right_ear = data'.right_ear
                /\ published'[i].avg_ear = data'.avg_ear
                /\ Met \in {"skipped", "none"} =>
                      /\ published'[i].left_ear = data.left_ear
                      /\ published'[i].right_ear = data.right_ear
                      /\ published'[i].avg_ear = data.avg_ear
                /\ \A j \in EventsOf(published', "blink") : j < i ]_vars

\* with MAX_FRAME_SKIP = 2, the eye-data update of a skipped tick that
\* follows a processed detection carries the EAR of that detection
C37_Witness ==
    /\ config.MAX_FRAME_SKIP = 2
    /\ result_log = <<"skipped", "below", "skipped">>
    /\ Len(published) = 1
    /\ published[1].event = "eye_data"
    /\ published[1].avg_ear = 15
    /\ published[1].to = {"widget"}

\* the tick of this step published a blink whose handling by an observer
\* raised
BlinkHandlerRaised ==
    /\ PublishTick
    /\ \E i \in EventsOf(published', "blink") : published'[i].raised

\* C38: when an observer raises while it handles a blink, the monitor
\* called by the widget included, the tick still ends with blink_count
\* incremented by 1 and the run counter at 0, returns normally, and
\* publishes its eye-data update after the blink.
C38_RaisingHandlerKeepsBlink ==
    [][ BlinkHandlerRaised =>
          /\ data'.blink_count = data.blink_count + 1
          /\ frame_counter' = 0
          /\ frame_exit' = "returned"
          /\ Len(published') = 2
          /\ published'[1].event = "blink"
          /\ published'[1].count = data'.blink_count
          /\ published'[2].event = "eye_data" ]_vars

\* the monitor raised inside on_blink_detected on the first blink; the
\* blink stays counted and the eye-data update followed
C38_Witness ==
    /\ mon_event = "raised"
    /\ Len(published) = 2
    /\ published[1].event = "blink"
    /\ published[1].raised
    /\ published[2].event = "eye_data"
    /\ data.blink_count = 1
    /\ current_blink_count = 1
    /\ frame_counter = 0
    /\ frame_exit = "returned"

====
